---- MODULE Spec2Model ----
(***************************************************************************)
(* Nyx shell-command agent: the command-safety classifier, the plan        *)
(* normalizer, the command executor and the planning/execution control     *)
(* loop (src/agents/command_validator.py, command_executor.py,             *)
(* main_agent.py, history_manager.py, user_interaction.py).                *)
(*                                                                         *)
(* A Python str is a sequence of one-character strings, so that substring  *)
(* containment, tokenisation and formatting are computed, not assumed.     *)
(***************************************************************************)
EXTENDS Integers, Sequences, FiniteSets, TLC

(***************************************************************************)
(* Bounds of the model.                                                    *)
(***************************************************************************)
\* longest argument list handed to the classifier
MaxArgs == 2

(***************************************************************************)
(* Python str helpers.                                                     *)
(***************************************************************************)
\* Python `sub in s` on str
Contains(sub, s) ==
    \E i \in 0..(Len(s) - Len(sub)) : SubSeq(s, i + 1, i + Len(sub)) = sub

\* Python `sep.join(parts)`, computed by halves
RECURSIVE Join(_, _)
Join(sep, parts) ==
    IF Len(parts) = 0 THEN <<>>
    ELSE IF Len(parts) = 1 THEN parts[1]
    ELSE LET half == Len(parts) \div 2
         IN  Join(sep, SubSeq(parts, 1, half)) \o sep
                 \o Join(sep, SubSeq(parts, half + 1, Len(parts)))

\* sequences over S of length at most n
SeqUpTo(S, n) == UNION { [1..k -> S] : k \in 0..n }

(***************************************************************************)
(* command_validator.py: security configuration.                           *)
(***************************************************************************)
ALLOWED_COMMANDS ==
    { <<"p","a","c","m","a","n">>, <<"a","p","t","-","g","e","t">>, <<"a","p","t">>,
      <<"y","u","m">>, <<"d","n","f">>, <<"z","y","p","p","e","r">>, <<"e","m","e","r","g","e">>,
      <<"l","s">>, <<"f","i","n","d">>, <<"w","h","i","c","h">>, <<"w","h","e","r","e","i","s">>,
      <<"f","i","l","e">>, <<"s","t","a","t">>, <<"d","u">>, <<"d","f">>, <<"u","n","a","m","e">>,
      <<"w","h","o","a","m","i">>, <<"i","d">>, <<"p","s">>, <<"t","o","p">>, <<"h","t","o","p">>,
      <<"f","r","e","e">>, <<"u","p","t","i","m","e">>, <<"c","a","t">>, <<"h","e","a","d">>,
      <<"t","a","i","l">>, <<"g","r","e","p">>, <<"w","c">>, <<"s","o","r","t">>,
      <<"u","n","i","q">>, <<"p","i","n","g">>, <<"w","g","e","t">>, <<"c","u","r","l">>,
      <<"s","s","h">>, <<"p","y","t","h","o","n">>, <<"p","y","t","h","o","n","3">>,
      <<"p","i","p">>, <<"p","i","p","3">>, <<"n","o","d","e">>, <<"n","p","m">>, <<"g","i","t">>,
      <<"s","y","s","t","e","m","c","t","l">>, <<"s","e","r","v","i","c","e">>,
      <<"s","u","d","o">> }

DANGEROUS_COMMANDS ==
    { <<"r","m">>, <<"r","m","d","i","r">>, <<"d","d">>, <<"m","k","f","s">>,
      <<"f","d","i","s","k">>, <<"p","a","r","t","e","d">>, <<"s","h","r","e","d">>,
      <<"c","h","m","o","d">>, <<"c","h","o","w","n">>, <<"s","u">>, <<"p","a","s","s","w","d">>,
      <<"u","s","e","r","m","o","d">>, <<"u","s","e","r","d","e","l">>,
      <<"i","p","t","a","b","l","e","s">>, <<"f","i","r","e","w","a","l","l","-","c","m","d">>,
      <<"u","f","w">> }

SAFE_SUDO_COMMANDS ==
    { <<"p","a","c","m","a","n">>, <<"a","p","t","-","g","e","t">>, <<"a","p","t">>,
      <<"y","u","m">>, <<"d","n","f">>, <<"s","y","s","t","e","m","c","t","l">>,
      <<"s","e","r","v","i","c","e">> }

dangerous_flags ==
    { <<"-","r","f">>, <<"-","-","f","o","r","c","e">>,
      <<"-","-","n","o","-","p","r","e","s","e","r","v","e","-","r","o","o","t">> }

(***************************************************************************)
(* command_validator.py: the classifier.  A verdict is the Python tuple    *)
(* (is_safe, message).                                                     *)
(***************************************************************************)
Verdict(is_safe, message) == [is_safe |-> is_safe, message |-> message]

\* mutant: the allow-list is consulted before the deny-list
CheckBasicAllowFirst(command) ==
    IF command \notin ALLOWED_COMMANDS
    THEN Verdict(FALSE, <<"C","o","m","m","a","n","d"," ","'">> \o command \o <<"'"," ","i","s"," ","n","o","t"," ","i","n"," ","t","h","e"," ","a","l","l","o","w","e","d"," ","c","o","m","m","a","n","d","s"," ","l","i","s","t">>)
    ELSE IF command \in DANGEROUS_COMMANDS
    THEN Verdict(FALSE, <<"C","o","m","m","a","n","d"," ","'">> \o command \o <<"'"," ","i","s"," ","i","n"," ","t","h","e"," ","d","a","n","g","e","r","o","u","s"," ","c","o","m","m","a","n","d","s"," ","l","i","s","t">>)
    ELSE Verdict(TRUE, <<"C","o","m","m","a","n","d"," ","i","s"," ","s","a","f","e">>)

_check_basic_command_safety(command) ==
    IF command \in DANGEROUS_COMMANDS
    THEN Verdict(FALSE, <<"C","o","m","m","a","n","d"," ","'">> \o command \o <<"'"," ","i","s"," ","i","n"," ","t","h","e"," ","d","a","n","g","e","r","o","u","s"," ","c","o","m","m","a","n","d","s"," ","l","i","s","t">>)
    ELSE IF command \notin ALLOWED_COMMANDS
    THEN Verdict(FALSE, <<"C","o","m","m","a","n","d"," ","'">> \o command \o <<"'"," ","i","s"," ","n","o","t"," ","i","n"," ","t","h","e"," ","a","l","l","o","w","e","d"," ","c","o","m","m","a","n","d","s"," ","l","i","s","t">>)
    ELSE Verdict(TRUE, <<"C","o","m","m","a","n","d"," ","i","s"," ","s","a","f","e">>)

\* any(flag in arg for flag in dangerous_flags)
HasDangerousFlag(arg) == \E flag \in dangerous_flags : Contains(flag, arg)

\* mutant: a flag is matched by equality with the argument, not by containment
ValidateSudoExactFlag(args) ==
    IF Len(args) = 0
    THEN Verdict(FALSE, <<"S","u","d","o"," ","c","o","m","m","a","n","d"," ","r","e","q","u","i","r","e","s"," ","a","r","g","u","m","e","n","t","s">>)
    ELSE IF args[1] \notin SAFE_SUDO_COMMANDS
    THEN Verdict(FALSE, <<"S","u","d","o"," ","w","i","t","h"," ","'">> \o args[1] \o <<"'"," ","i","s"," ","n","o","t"," ","a","l","l","o","w","e","d">>)
    ELSE IF \E i \in 1..Len(args) : args[i] \in dangerous_flags
    THEN LET i == CHOOSE k \in 1..Len(args) :
                     /\ args[k] \in dangerous_flags
                     /\ \A j \in 1..(k - 1) : args[j] \notin dangerous_flags
         IN  Verdict(FALSE, <<"D","a","n","g","e","r","o","u","s"," ","f","l","a","g"," ","d","e","t","e","c","t","e","d",":"," ">> \o args[i])
    ELSE Verdict(TRUE, <<"S","u","d","o"," ","c","o","m","m","a","n","d"," ","i","s"," ","s","a","f","e">>)

_validate_sudo_command(args) ==
    IF Len(args) = 0
    THEN Verdict(FALSE, <<"S","u","d","o"," ","c","o","m","m","a","n","d"," ","r","e","q","u","i","r","e","s"," ","a","r","g","u","m","e","n","t","s">>)
    ELSE IF args[1] \notin SAFE_SUDO_COMMANDS
    THEN Verdict(FALSE, <<"S","u","d","o"," ","w","i","t","h"," ","'">> \o args[1] \o <<"'"," ","i","s"," ","n","o","t"," ","a","l","l","o","w","e","d">>)
    ELSE IF \E i \in 1..Len(args) : HasDangerousFlag(args[i])
    THEN \* the loop returns at the first argument that carries a flag
         LET i == CHOOSE k \in 1..Len(args) :
                     /\ HasDangerousFlag(args[k])
                     /\ \A j \in 1..(k - 1) : ~HasDangerousFlag(args[j])
         IN  Verdict(FALSE, <<"D","a","n","g","e","r","o","u","s"," ","f","l","a","g"," ","d","e","t","e","c","t","e","d",":"," ">> \o args[i])
    ELSE Verdict(TRUE, <<"S","u","d","o"," ","c","o","m","m","a","n","d"," ","i","s"," ","s","a","f","e">>)

\* mutant: the verdict of the allow/deny lists is not consulted
ValidateWithoutLists(command, args) ==
    IF command = <<"s","u","d","o">>
    THEN _validate_sudo_command(args)
    ELSE Verdict(TRUE, <<"C","o","m","m","a","n","d"," ","i","s"," ","s","a","f","e">>)

validate_command_safety(command, args) ==
    LET basic == _check_basic_command_safety(command)
    IN  IF ~basic.is_safe THEN basic
        ELSE IF command = <<"s","u","d","o">> THEN _validate_sudo_command(args)
        ELSE Verdict(TRUE, <<"C","o","m","m","a","n","d"," ","i","s"," ","s","a","f","e">>)

(***************************************************************************)
(* Python values as they come out of json.loads: a value is a record with  *)
(* its type tag t and its payload v (a str is a sequence of characters, a  *)
(* list a sequence of values, a dict a function from key names to values). *)
(***************************************************************************)
JStr(s) == [t |-> "str", v |-> s]
JNum(n) == [t |-> "num", v |-> n]
JNull == [t |-> "null", v |-> 0]
JList(l) == [t |-> "list", v |-> l]
JDict(d) == [t |-> "dict", v |-> d]

\* Python truth value of x (`if x`, `x and ...`)
Truthy(x) ==
    CASE x.t = "str" -> Len(x.v) > 0
      [] x.t = "num" -> x.v # 0
      [] x.t = "null" -> FALSE
      [] x.t = "list" -> Len(x.v) > 0
      [] x.t = "dict" -> DOMAIN x.v # {}

\* hash(x) succeeds: lists and dicts are unhashable
Hashable(x) == x.t \in {"str", "num", "null"}

\* dict.get(key, default)
Get(d, key, default) == IF key \in DOMAIN d.v THEN d.v[key] ELSE default

\* the outcome of a call: the returned value, or the exception it raised
Ok(value) == [raised |-> "", value |-> value]
Raise(exc) == [raised |-> exc, value |-> <<>>]

(***************************************************************************)
(* shlex.split(s): POSIX mode, whitespace_split, no comments.  The scanner *)
(* state is shlex's: " " between tokens, "a" inside a word, a quote        *)
(* character inside quotes, the backslash after an escape character.       *)
(***************************************************************************)
ShlexWhitespace == {" ", "\t", "\r", "\n"}
ShlexQuotes == {"'", "\""}
ShlexEscape == "\\"
ShlexEscapedQuotes == {"\""}

RECURSIVE ShlexScan(_, _, _, _, _, _, _)
ShlexScan(s, i, state, escapedstate, token, quoted, out) ==
    IF i > Len(s)
    THEN \* end of input
         IF state \in ShlexQuotes THEN Raise("ValueError")
         ELSE IF state = ShlexEscape THEN Raise("ValueError")
         ELSE IF token # <<>> \/ quoted THEN Ok(Append(out, token))
         ELSE Ok(out)
    ELSE LET nextchar == s[i] IN
         IF state = " "
         THEN IF nextchar \in ShlexWhitespace
              THEN ShlexScan(s, i + 1, " ", escapedstate, token, quoted, out)
              ELSE IF nextchar = ShlexEscape
              THEN ShlexScan(s, i + 1, nextchar, "a", token, quoted, out)
              ELSE IF nextchar \in ShlexQuotes
              THEN ShlexScan(s, i + 1, nextchar, escapedstate, token, quoted, out)
              ELSE ShlexScan(s, i + 1, "a", escapedstate, <<nextchar>>, quoted, out)
         ELSE IF state \in ShlexQuotes
         THEN IF nextchar = state
              THEN ShlexScan(s, i + 1, "a", escapedstate, token, TRUE, out)
              ELSE IF nextchar = ShlexEscape /\ state \in ShlexEscapedQuotes
              THEN ShlexScan(s, i + 1, nextchar, state, token, TRUE, out)
              ELSE ShlexScan(s, i + 1, state, escapedstate, Append(token, nextchar), TRUE, out)
         ELSE IF state = ShlexEscape
         THEN LET kept == IF /\ escapedstate \in ShlexQuotes
                             /\ nextchar # state
                             /\ nextchar # escapedstate
                          THEN Append(token, state)
                          ELSE token
              IN  ShlexScan(s, i + 1, escapedstate, escapedstate,
                            Append(kept, nextchar), quoted, out)
         ELSE \* state = "a"
              IF nextchar \in ShlexWhitespace
              THEN IF token # <<>> \/ quoted
                   THEN ShlexScan(s, i + 1, " ", escapedstate, <<>>, FALSE, Append(out, token))
                   ELSE ShlexScan(s, i + 1, " ", escapedstate, <<>>, FALSE, out)
              ELSE IF nextchar \in ShlexQuotes
              THEN ShlexScan(s, i + 1, nextchar, escapedstate, token, quoted, out)
              ELSE IF nextchar = ShlexEscape
              THEN ShlexScan(s, i + 1, nextchar, "a", token, quoted, out)
              ELSE ShlexScan(s, i + 1, "a", escapedstate, Append(token, nextchar), quoted, out)

\* shlex.split(s): the list of tokens (each a str), or ValueError
shlex_split(s) == ShlexScan(s, 1, " ", " ", <<>>, FALSE, <<>>)

\* a list of str as a list of Python values
StrList(tokens) == [k \in 1..Len(tokens) |-> JStr(tokens[k])]

(***************************************************************************)
(* command_validator.py: the plan normalizer.  A normalized step is the    *)
(* pair (cmd, args) as the record [cmd, args].                             *)
(***************************************************************************)
_normalize_string_step(step) ==
    LET parts == shlex_split(step.v)
    IN  IF parts.raised # "" THEN parts
        ELSE IF Len(parts.value) = 0 THEN Ok([cmd |-> JStr(<<>>), args |-> <<>>])
        ELSE Ok([cmd |-> JStr(parts.value[1]), args |-> StrList(Tail(parts.value))])

\* `" " in raw_cmd`: substring for a str, membership for a list or a dict,
\* TypeError for a value that is not iterable
SpaceIn(raw_cmd) ==
    CASE raw_cmd.t = "str" -> Ok(Contains(<<" ">>, raw_cmd.v))
      [] raw_cmd.t = "list" -> Ok(\E k \in 1..Len(raw_cmd.v) : raw_cmd.v[k] = JStr(<<" ">>))
      [] raw_cmd.t = "dict" -> Ok(FALSE)
      [] OTHER -> Raise("TypeError")

\* mutant: the tokens split off the command go after the step's own args
NormalizeDictArgsFirst(step) ==
    LET raw_cmd == Get(step, "command", JStr(<<>>))
        given == Get(step, "args", JList(<<>>))
        raw_args == IF given.t = "str"
                    THEN LET parts == shlex_split(given.v)
                         IN  IF parts.raised # "" THEN parts ELSE Ok(StrList(parts.value))
                    ELSE IF given.t # "list" THEN Ok(<<>>)
                    ELSE Ok(given.v)
    IN  IF raw_args.raised # "" THEN raw_args
        ELSE IF ~Truthy(raw_cmd) THEN Ok([cmd |-> raw_cmd, args |-> raw_args.value])
        ELSE LET has_space == SpaceIn(raw_cmd) IN
             IF has_space.raised # "" THEN has_space
             ELSE IF ~has_space.value THEN Ok([cmd |-> raw_cmd, args |-> raw_args.value])
             ELSE IF raw_cmd.t # "str" THEN Raise("AttributeError")
             ELSE LET parts == shlex_split(raw_cmd.v) IN
                  IF parts.raised # "" THEN parts
                  ELSE IF Len(parts.value) = 0 THEN Raise("IndexError")
                  ELSE Ok([cmd |-> JStr(parts.value[1]),
                           args |-> raw_args.value \o StrList(Tail(parts.value))])

_normalize_dict_step(step) ==
    LET raw_cmd == Get(step, "command", JStr(<<>>))
        given == Get(step, "args", JList(<<>>))
        \* raw_args after the isinstance tests
        raw_args == IF given.t = "str"
                    THEN LET parts == shlex_split(given.v)
                         IN  IF parts.raised # "" THEN parts ELSE Ok(StrList(parts.value))
                    ELSE IF given.t # "list" THEN Ok(<<>>)
                    ELSE Ok(given.v)
    IN  IF raw_args.raised # "" THEN raw_args
        ELSE IF ~Truthy(raw_cmd) THEN Ok([cmd |-> raw_cmd, args |-> raw_args.value])
        ELSE LET has_space == SpaceIn(raw_cmd) IN
             IF has_space.raised # "" THEN has_space
             ELSE IF ~has_space.value THEN Ok([cmd |-> raw_cmd, args |-> raw_args.value])
             ELSE IF raw_cmd.t # "str" THEN Raise("AttributeError")
             ELSE LET parts == shlex_split(raw_cmd.v) IN
                  IF parts.raised # "" THEN parts
                  ELSE IF Len(parts.value) = 0 THEN Raise("IndexError")
                  ELSE Ok([cmd |-> JStr(parts.value[1]),
                           args |-> StrList(Tail(parts.value)) \o raw_args.value])

banned == { <<"&","&">>, <<"|","|">>, <<";">>, <<"|">>, <<">">>, <<"<">> }

\* `t in banned`: a str is looked up, another hashable value is not a member
InBanned(tok) == tok.t = "str" /\ tok.v \in banned

\* any(t in banned for t in tokens) stops at the first member; hashing a list
\* or a dict before that raises TypeError
_is_step_safe(cmd, args) ==
    LET tokens == <<cmd>> \o args
        Stop(k) == InBanned(tokens[k]) \/ ~Hashable(tokens[k])
    IN  IF \E k \in 1..Len(tokens) : Stop(k)
        THEN LET first == CHOOSE k \in 1..Len(tokens) :
                             Stop(k) /\ \A j \in 1..(k - 1) : ~Stop(j)
             IN  IF Hashable(tokens[first]) THEN Ok(FALSE) ELSE Raise("TypeError")
        ELSE Ok(TRUE)

\* None (the step is dropped) is the value JNull
_process_single_step(step) ==
    LET normal == IF step.t = "str" THEN _normalize_string_step(step)
                  ELSE IF step.t = "dict" THEN _normalize_dict_step(step)
                  ELSE Ok(JNull)
    IN  IF normal.raised # "" THEN normal
        ELSE IF step.t \notin {"str", "dict"} THEN Ok(JNull)
        ELSE LET safe == _is_step_safe(normal.value.cmd, normal.value.args) IN
             IF safe.raised # "" THEN safe
             ELSE IF ~safe.value THEN Ok(JNull)
             ELSE IF Truthy(normal.value.cmd) THEN normal
             ELSE Ok(JNull)

\* is the value the pair of a kept step (and not None)?
IsKept(result) == DOMAIN result = {"cmd", "args"}

\* the loop of normalize_plan over plan_data["plan"][k..]
RECURSIVE NormalizeSteps(_, _, _)
NormalizeSteps(steps, k, normalized) ==
    IF k > Len(steps) THEN Ok(normalized)
    ELSE LET result == _process_single_step(steps[k]) IN
         IF result.raised # "" THEN result
         ELSE IF IsKept(result.value)
         THEN NormalizeSteps(steps, k + 1,
                  Append(normalized,
                         JDict([command |-> result.value.cmd,
                                args |-> JList(result.value.args)])))
         ELSE NormalizeSteps(steps, k + 1, normalized)

\* is plan_data a dict whose "plan" is a list?
HasPlanList(plan_data) ==
    /\ plan_data.t = "dict"
    /\ "plan" \in DOMAIN plan_data.v
    /\ plan_data.v["plan"].t = "list"

normalize_plan(plan_data) ==
    IF ~HasPlanList(plan_data) THEN Ok(plan_data)
    ELSE LET normalized == NormalizeSteps(plan_data.v["plan"].v, 1, <<>>) IN
         IF normalized.raised # "" THEN normalized
         ELSE Ok(JDict([key \in DOMAIN plan_data.v |->
                           IF key = "plan" THEN JList(normalized.value)
                           ELSE plan_data.v[key]]))

(***************************************************************************)
(* Formatting: str(int), repr() and json.dumps() of the values above.      *)
(***************************************************************************)
\* the one character U+1F6AB that opens the executor's rejection message
NoEntrySign == "U+1F6AB"

Digit(d) == <<CASE d = 0 -> "0" [] d = 1 -> "1" [] d = 2 -> "2" [] d = 3 -> "3"
                [] d = 4 -> "4" [] d = 5 -> "5" [] d = 6 -> "6" [] d = 7 -> "7"
                [] d = 8 -> "8" [] d = 9 -> "9">>

\* str(n) for n >= 0
RECURSIVE IntStr(_)
IntStr(n) == IF n < 10 THEN Digit(n) ELSE IntStr(n \div 10) \o Digit(n % 10)

\* the keys of a dict in the order the plan source writes them
KeyOrder == <<"error", "plan", "command", "args">>
KeyChars(key) ==
    CASE key = "error" -> <<"e","r","r","o","r">> [] key = "plan" -> <<"p","l","a","n">>
      [] key = "command" -> <<"c","o","m","m","a","n","d">> [] key = "args" -> <<"a","r","g","s">>

\* repr(s) of a str: single quotes, unless s has a single and no double quote
StrRepr(s) ==
    LET q == IF "'" \in {s[k] : k \in 1..Len(s)} /\ "\"" \notin {s[k] : k \in 1..Len(s)}
             THEN "\"" ELSE "'"
        Esc(c) == IF c = "\\" THEN <<"\\", "\\">>
                  ELSE IF c = "\n" THEN <<"\\", "n">>
                  ELSE IF c = q THEN <<"\\", c>>
                  ELSE <<c>>
    IN  <<q>> \o Join(<<>>, [k \in 1..Len(s) |-> Esc(s[k])]) \o <<q>>

\* repr(x), as an f-string prints a parsed plan
RECURSIVE PyRepr(_)
PyRepr(x) ==
    CASE x.t = "str" -> StrRepr(x.v)
      [] x.t = "num" -> IntStr(x.v)
      [] x.t = "null" -> <<"N","o","n","e">>
      [] x.t = "list" ->
            <<"[">> \o Join(<<","," ">>, [k \in 1..Len(x.v) |-> PyRepr(x.v[k])]) \o <<"]">>
      [] x.t = "dict" ->
            LET keys == SelectSeq(KeyOrder, LAMBDA key : key \in DOMAIN x.v)
            IN  <<"{">> \o Join(<<","," ">>, [k \in 1..Len(keys) |->
                                       StrRepr(KeyChars(keys[k])) \o <<":"," ">>
                                           \o PyRepr(x.v[keys[k]])]) \o <<"}">>

\* the JSON text of a str: quotes, with the escapes of json.dumps
JsonStr(s) ==
    LET Esc(c) == IF c = "\\" THEN <<"\\", "\\">>
                  ELSE IF c = "\n" THEN <<"\\", "n">>
                  ELSE IF c = "\t" THEN <<"\\", "t">>
                  ELSE IF c = "\"" THEN <<"\\", "\"">>
                  ELSE IF c = NoEntrySign THEN <<"\\","u","d","8","3","d","\\","u","d","e","a","b">>
                  ELSE <<c>>
    IN  <<"\"">> \o Join(<<>>, [k \in 1..Len(s) |-> Esc(s[k])]) \o <<"\"">>

\* json.dumps(x)
RECURSIVE JsonDumps(_)
JsonDumps(x) ==
    CASE x.t = "str" -> JsonStr(x.v)
      [] x.t = "num" -> IntStr(x.v)
      [] x.t = "null" -> <<"n","u","l","l">>
      [] x.t = "list" ->
            <<"[">> \o Join(<<","," ">>, [k \in 1..Len(x.v) |-> JsonDumps(x.v[k])]) \o <<"]">>
      [] x.t = "dict" ->
            LET keys == SelectSeq(KeyOrder, LAMBDA key : key \in DOMAIN x.v)
            IN  <<"{">> \o Join(<<","," ">>, [k \in 1..Len(keys) |->
                                       JsonStr(KeyChars(keys[k])) \o <<":"," ">>
                                           \o JsonDumps(x.v[keys[k]])]) \o <<"}">>

(***************************************************************************)
(* history_manager.py.  A history entry is {"role", "content"}; filler is  *)
(* the number of further characters of the content that the model does not *)
(* spell out (free text of the plan source, none of it part of a substring *)
(* the program looks for).                                                 *)
(***************************************************************************)
MAX_CONTEXT_SIZE == 4000

Entry(role, content) == [role |-> role, content |-> content, filler |-> 0]
LongEntry(role, content, filler) == [role |-> role, content |-> content, filler |-> filler]

RoleChars(role) ==
    CASE role = "user" -> <<"u","s","e","r">> [] role = "assistant" -> <<"a","s","s","i","s","t","a","n","t">>
      [] role = "system" -> <<"s","y","s","t","e","m">>

\* the number of characters json.dumps writes for the character c
JsonCharLen(c) ==
    IF c \in {"\\", "\n", "\t", "\""} THEN 2 ELSE IF c = NoEntrySign THEN 12 ELSE 1

\* the number of characters json.dumps writes for the characters of s
JsonLen(s) ==
    Len(s) + Cardinality({k \in 1..Len(s) : JsonCharLen(s[k]) = 2})
           + 11 * Cardinality({k \in 1..Len(s) : JsonCharLen(s[k]) = 12})

\* len(json.dumps(entry)): {"role": "...", "content": "..."}
EntrySize(h) ==
    Len(<<"{","\"","r","o","l","e","\"",":"," ","\"">>) + Len(RoleChars(h.role)) + Len(<<"\"",","," ","\"","c","o","n","t","e","n","t","\"",":"," ","\"">>)
        + JsonLen(h.content) + h.filler + Len(<<"\"","}">>)

RECURSIVE SumSizes(_)
SumSizes(history) ==
    IF Len(history) = 0 THEN 0 ELSE EntrySize(history[1]) + SumSizes(Tail(history))

\* len(json.dumps(history)): the entries, ", " between them, the brackets
estimate_context_size(history) ==
    2 + SumSizes(history) + (IF Len(history) > 1 THEN 2 * (Len(history) - 1) ELSE 0)

\* mutant: one entry more than the last n
LastNAndOneMore(history, n) ==
    IF Len(history) <= n + 1 THEN history
    ELSE SubSeq(history, Len(history) - n, Len(history))

\* history[-n:]
LastN(history, n) ==
    IF Len(history) <= n THEN history
    ELSE SubSeq(history, Len(history) - n + 1, Len(history))

\* json.dumps(entries, indent=2) of history entries (the filler of an entry,
\* which the model does not spell out, is not written)
JsonDumpsIndented(entries) ==
    IF Len(entries) = 0 THEN <<"[","]">>
    ELSE <<"[","\n">>
         \o Join(<<",","\n">>, [k \in 1..Len(entries) |->
                <<" "," ","{","\n"," "," "," "," ","\"","r","o","l","e","\"",":"," ">> \o JsonStr(RoleChars(entries[k].role))
                    \o <<",","\n"," "," "," "," ","\"","c","o","n","t","e","n","t","\"",":"," ">> \o JsonStr(entries[k].content)
                    \o <<"\n"," "," ","}">>])
         \o <<"\n","]">>

LooksFailed(h) ==
    h.role = "system" /\ (Contains(<<"E","r","r","o","r">>, h.content) \/ Contains(<<"f","a","i","l","e","d">>, h.content))

\* the text that introduces the failures in the prompt
FailureHeader ==
    <<"Y","o","u"," ","h","a","v","e"," ","r","e","c","e","n","t","l","y"," ","f","a","i","l","e","d"," ","w","i","t","h"," ","t","h","e"," ","f","o","l","l","o","w","i","n","g"," ","e","r","r","o","r","s","."," ","D","o"," ","n","o","t"," ","r","e","p","e","a","t"," ","t","h","e","s","e"," ","m","i","s","t","a","k","e","s","."," ">>
        \o <<"A","n","a","l","y","z","e"," ","t","h","e"," ","e","r","r","o","r","s"," ","a","n","d"," ","c","r","e","a","t","e"," ","a"," ","n","e","w",","," ","d","i","f","f","e","r","e","n","t"," ","p","l","a","n",".","\n">>
        \o <<"R","e","c","e","n","t"," ","f","a","i","l","u","r","e","s",":","\n">>

get_failure_context(history) ==
    LET recent_failures == SelectSeq(LastN(history, 3), LooksFailed) IN
    IF recent_failures # <<>>
    THEN FailureHeader \o JsonDumpsIndented(recent_failures)
    ELSE <<>>

\* Outcomes of the summarization requests of one call: the first request
\* succeeds ("up"), it fails and a later one succeeds ("recovers"), or every
\* request fails ("down").
BackendStates == {"up", "recovers", "down"}

\* the text the plan source returns for a summary
SummaryText == <<"r","a","n"," ","l","s">>

\* summarize_old_history with its fallback compress_history: when the request
\* fails, compress_history returns the history as it is if it is small, and
\* otherwise calls summarize_old_history again, which repeats the request.
summarize_old_history(history, backend) ==
    IF Len(history) <= 5 THEN Ok(history)
    ELSE LET compressed ==
                 <<history[1]>>
                     \o <<Entry("system", <<"P","r","e","v","i","o","u","s"," ","s","e","s","s","i","o","n"," ","s","u","m","m","a","r","y",":"," ">> \o SummaryText)>>
                     \o LastN(history, 3)
         IN  IF backend = "up" THEN Ok(compressed)
             ELSE IF estimate_context_size(history) <= MAX_CONTEXT_SIZE THEN Ok(history)
             ELSE IF backend = "recovers" THEN Ok(compressed)
             ELSE Raise("RecursionError")

(***************************************************************************)
(* command_executor.py.  The operating system's answer to a spawn is the   *)
(* record os: the process exits with returncode, stdout and stderr, or the *)
(* spawn raises.                                                           *)
(***************************************************************************)
\* str.strip()
RECURSIVE LStrip(_)
LStrip(s) == IF Len(s) > 0 /\ s[1] \in ShlexWhitespace THEN LStrip(Tail(s)) ELSE s
RECURSIVE RStrip(_)
RStrip(s) ==
    IF Len(s) > 0 /\ s[Len(s)] \in ShlexWhitespace THEN RStrip(SubSeq(s, 1, Len(s) - 1)) ELSE s
Strip(s) == RStrip(LStrip(s))

_format_command_output(os) ==
    LET out == IF Len(os.stdout) > 0
               THEN <<"-","-","-"," ","O","u","t","p","u","t"," ","-","-","-","\n">> \o Strip(os.stdout) \o <<"\n">> ELSE <<>>
        err == IF Len(os.stderr) > 0
               THEN <<"-","-","-"," ","E","r","r","o","r","s"," ","-","-","-","\n">> \o Strip(os.stderr) \o <<"\n">> ELSE <<>>
    IN  IF Len(out \o err) > 0 THEN out \o err
        ELSE <<"C","o","m","m","a","n","d"," ","e","x","e","c","u","t","e","d"," ","s","u","c","c","e","s","s","f","u","l","l","y"," ","w","i","t","h"," ","n","o"," ","o","u","t","p","u","t",".","\n">>

\* needs_shell of _run_command_subprocess
needs_shell(command, args) ==
    \E op \in { <<"|">>, <<">">>, <<"<">>, <<"&","&">>, <<"|","|">> } :
        Contains(op, Join(<<" ">>, <<command>> \o args))

\* what execute_command returns, and what it did to get there:
\* spawn is "none" (no process), "direct" or "shell"
Executed(return_code, result, spawn) ==
    [return_code |-> return_code, result |-> result, spawn |-> spawn]

\* the answers of the operating system: the process exits, or it cannot be
\* started; FileNotFoundError stands for "the executable does not exist"
Exit(returncode, stdout, stderr) ==
    [raised |-> "", returncode |-> returncode, stdout |-> stdout, stderr |-> stderr]
SpawnFails(exc, text) ==
    [raised |-> exc, returncode |-> 0, stdout |-> <<>>, stderr |-> text]

\* the exit status of /bin/sh -c when it does not find the command
ShellNotFound == 127

\* _run_command_subprocess: subprocess.run on the argument list raises
\* FileNotFoundError when the executable does not exist; with shell=True the
\* shell is started, reports the missing command and exits
_run_command_subprocess(command, args, os) ==
    IF needs_shell(command, args) /\ os.raised = "FileNotFoundError"
    THEN Exit(ShellNotFound, <<>>, <<"/","b","i","n","/","s","h",":"," ","1",":"," ">> \o command \o <<":"," ","n","o","t"," ","f","o","u","n","d","\n">>)
    ELSE os

\* mutant: the process is spawned whatever the classifier said
ExecuteWithoutValidation(command, args, os) ==
    LET mode == IF needs_shell(command, args) THEN "shell" ELSE "direct"
        run == _run_command_subprocess(command, args, os)
    IN  IF run.raised = "FileNotFoundError"
        THEN Executed(1, <<"E","r","r","o","r",":"," ","C","o","m","m","a","n","d"," ","n","o","t"," ","f","o","u","n","d",":"," ">> \o command \o <<"\n">>, "none")
        ELSE IF run.raised # ""
        THEN Executed(1, <<"A","n"," ","u","n","e","x","p","e","c","t","e","d"," ","e","r","r","o","r"," ","o","c","c","u","r","r","e","d",":"," ">> \o run.stderr \o <<"\n">>, "none")
        ELSE Executed(run.returncode, _format_command_output(run), mode)

execute_command(command, args, os) ==
    LET verdict == validate_command_safety(command, args)
        mode == IF needs_shell(command, args) THEN "shell" ELSE "direct"
        run == _run_command_subprocess(command, args, os)
    IN  IF ~verdict.is_safe
        THEN Executed(1, <<NoEntrySign>> \o <<" ","C","o","m","m","a","n","d"," ","b","l","o","c","k","e","d"," ","f","o","r"," ","s","a","f","e","t","y",":"," ">>
                             \o verdict.message \o <<"\n">>, "none")
        ELSE IF run.raised = "FileNotFoundError"
        THEN Executed(1, <<"E","r","r","o","r",":"," ","C","o","m","m","a","n","d"," ","n","o","t"," ","f","o","u","n","d",":"," ">> \o command \o <<"\n">>, "none")
        ELSE IF run.raised # ""
        THEN Executed(1, <<"A","n"," ","u","n","e","x","p","e","c","t","e","d"," ","e","r","r","o","r"," ","o","c","c","u","r","r","e","d",":"," ">> \o run.stderr \o <<"\n">>, "none")
        ELSE Executed(run.returncode, _format_command_output(run), mode)

\* a record of the logger as the format string of setup_logging writes it,
\* without its timestamp
LogLine(levelname, message) == [levelname |-> levelname, message |-> message]

\* mutant: the warning record is never written
LogWithoutWarning(command, args, return_code, result) ==
    <<LogLine("INFO", <<"E","X","E","C","U","T","E","D",":"," ">> \o command \o <<" ">> \o Join(<<" ">>, args)
                          \o <<" ","|"," ","E","X","I","T","_","C","O","D","E",":"," ">> \o IntStr(return_code))>>

\* log_command_execution: the records it hands to the logger
log_command_execution(command, args, return_code, result) ==
    LET cmd_str == command \o <<" ">> \o Join(<<" ">>, args) IN
    <<LogLine("INFO", <<"E","X","E","C","U","T","E","D",":"," ">> \o cmd_str \o <<" ","|"," ","E","X","I","T","_","C","O","D","E",":"," ">> \o IntStr(return_code))>>
        \o (IF return_code # 0
            THEN <<LogLine("WARNING", <<"C","O","M","M","A","N","D","_","F","A","I","L","E","D",":"," ">> \o cmd_str \o <<" ","|"," ","E","R","R","O","R",":"," ">> \o result)>>
            ELSE <<>>)

\* mutant: the result is logged on every path of execute_command
AuditedOnEveryPath(command, args, os) ==
    log_command_execution(command, args, execute_command(command, args, os).return_code,
                          execute_command(command, args, os).result)

\* the records execute_command hands to the logger: log_command_execution is
\* called after the process has exited, and on no other path
Audited(command, args, os) ==
    IF execute_command(command, args, os).spawn = "none" THEN <<>>
    ELSE log_command_execution(command, args, execute_command(command, args, os).return_code,
                               execute_command(command, args, os).result)

\* the audit log after the logger was handed the records: a handler that
\* cannot write reports the error on stderr and drops the record
Logged(log, records, writable) == IF writable THEN log \o records ELSE log

OsAnswers ==
    { Exit(0, <<>>, <<>>),
      Exit(1, <<>>, <<"f","a","i","l","e","d","\n">>),
      SpawnFails("FileNotFoundError", <<>>) }

(***************************************************************************)
(* State.                                                                  *)
(***************************************************************************)
VARIABLES
    v_pc,        \* classifier run: "call" before, "return" after the call
    v_command,   \* validate_command_safety: parameter command
    v_args,      \* validate_command_safety: parameter args
    v_result,    \* validate_command_safety: returned (is_safe, message)
    n_pc,        \* normalizer run: "call" before, "return" after the call
    n_plan_data, \* normalize_plan: parameter plan_data
    n_result,    \* normalize_plan: returned plan_data, or the exception raised
    pc,          \* main: position in the loop, "idle" outside a session
    outcome,     \* main: how the session ended, "" while it runs
    isatty,      \* sys.stdin.isatty() of the session
    model,       \* main: model (--model NAME)
    REQUIRE_PLAN_APPROVAL,  \* main_agent.py global
    iteration,   \* main: iteration
    history,     \* main: history
    plan_json_str,          \* main: plan_json_str of this pass
    plan,        \* execute_plan_steps: plan_data["plan"]
    step_no,     \* execute_plan_steps: index in plan of the step to run next
    execution_success,      \* main: execution_success of this pass
    executed,    \* the execute_command calls of this pass, in order, each with
                 \* the answer of confirm_sudo_execution if it was consulted, and
                 \* whether the executable turned out not to exist
    compression, \* which compression of history the last action performed
    completion_answer,      \* what the last action got for the completion question
    history_file,           \* what this session wrote to HISTORY_FILE, if anything
    failure_context,        \* create_plan_generation_prompt: failure_context of this pass
    plan_approval,          \* what approve_plan returned for the plan of this pass
    s_pc,        \* summarizer run: "call" before, "return" after the call
    s_history,   \* summarize_old_history: parameter history
    s_backend,   \* how the summarization requests of the call end
    s_result,    \* summarize_old_history: returned history, or the exception raised
    x_pc,        \* extraction run: "call" before, "return" after the call
    x_segments,  \* the parts the response of the plan source is made of
    x_retry,     \* what the retry request would be answered with
    x_result,    \* the plan text extracted, and the retry requests sent
    e_pc,        \* executor run: "call" before, "return" after the step
    e_command,   \* execute_command: parameter command
    e_args,      \* execute_command: parameter args
    e_os,        \* how the operating system answers the spawn
    e_writable,  \* whether the handlers of the logger can write their lines
    e_log,       \* the lines of the audit log /tmp/nyx_agent.log
    e_result,    \* execute_command: returned (return_code, result), and the spawn
    e_entry      \* execute_plan_steps: the History entry appended for the step

classifier_vars == <<v_pc, v_command, v_args, v_result>>
normalizer_vars == <<n_pc, n_plan_data, n_result>>
session_vars == <<pc, outcome, isatty, model, REQUIRE_PLAN_APPROVAL, iteration, history,
                  plan_json_str, plan, step_no, execution_success, executed,
                  compression, completion_answer, history_file, failure_context,
                  plan_approval>>
summarizer_vars == <<s_pc, s_history, s_backend, s_result>>
extractor_vars == <<x_pc, x_segments, x_retry, x_result>>
executor_vars == <<e_pc, e_command, e_args, e_os, e_writable, e_log, e_result, e_entry>>
vars == <<classifier_vars, normalizer_vars, session_vars, summarizer_vars, extractor_vars,
          executor_vars>>

\* the classifier and the normalizer before any call
ClassifierIdle ==
    /\ v_pc = "idle"
    /\ v_command = <<>>
    /\ v_args = <<>>
    /\ v_result = [is_safe |-> FALSE, message |-> <<>>]

NormalizerIdle ==
    /\ n_pc = "idle"
    /\ n_plan_data = [t |-> "null", v |-> 0]
    /\ n_result = [raised |-> "", value |-> <<>>]

\* no session is running
SessionIdle ==
    /\ pc = "idle"
    /\ outcome = ""
    /\ isatty = FALSE
    /\ model = <<>>
    /\ REQUIRE_PLAN_APPROVAL = FALSE
    /\ iteration = 0
    /\ history = <<>>
    /\ plan_json_str = <<>>
    /\ plan = <<>>
    /\ step_no = 0
    /\ execution_success = FALSE
    /\ executed = <<>>
    /\ compression = [trigger |-> "none", fallback |-> FALSE]
    /\ completion_answer = [raised |-> "none", value |-> <<>>]
    /\ history_file = [written |-> FALSE, content |-> <<>>]
    /\ failure_context = <<>>
    /\ plan_approval = [asked |-> FALSE, answer |-> "none"]

\* the summarizer before any call
SummarizerIdle ==
    /\ s_pc = "idle"
    /\ s_history = <<>>
    /\ s_backend = "up"
    /\ s_result = [raised |-> "", value |-> <<>>]

\* the extraction before any call
ExtractorIdle ==
    /\ x_pc = "idle"
    /\ x_segments = <<>>
    /\ x_retry = [raised |-> "", value |-> <<>>]
    /\ x_result = [extracted |-> <<>>, plan_json_str |-> <<>>, requests |-> 0]

\* the executor before any call
ExecutorIdle ==
    /\ e_pc = "idle"
    /\ e_command = <<>>
    /\ e_args = <<>>
    /\ e_os = [raised |-> "", returncode |-> 0, stdout |-> <<>>, stderr |-> <<>>]
    /\ e_writable = TRUE
    /\ e_log = <<>>
    /\ e_result = [return_code |-> 0, result |-> <<>>, spawn |-> "none"]
    /\ e_entry = [role |-> "system", content |-> <<>>, filler |-> 0]

(***************************************************************************)
(* The classifier as a pure function of its inputs.                        *)
(***************************************************************************)
\* names that are in neither list, among them an allowed name in another case
OtherCommands == { <<"L","S">>, <<"S","u","d","o">>, <<"n","a","n","o">>, <<>> }

ClassifierCommands == ALLOWED_COMMANDS \cup DANGEROUS_COMMANDS \cup OtherCommands

ClassifierArgs ==
    { <<"a","p","t","-","g","e","t">>, <<"s","y","s","t","e","m","c","t","l">>, <<"c","a","t">>, <<"r","m">>, <<"i","n","s","t","a","l","l">>, <<"-","y">>,
      <<"-","r","f">>, <<"-","r","f","v">>, <<"-","-","f","o","r","c","e">>, <<"x","-","-","n","o","-","p","r","e","s","e","r","v","e","-","r","o","o","t","=","1">>, <<"-","r">>, <<>> }

NoVerdict == Verdict(FALSE, <<>>)

ClassifyInit ==
    /\ v_pc = "call"
    /\ v_command \in ClassifierCommands
    /\ v_args \in SeqUpTo(ClassifierArgs, MaxArgs)
    /\ v_result = NoVerdict
    /\ NormalizerIdle
    /\ SessionIdle
    /\ SummarizerIdle
    /\ ExtractorIdle
    /\ ExecutorIdle

Classify ==
    /\ v_pc = "call"
    /\ v_result' = validate_command_safety(v_command, v_args)
    /\ v_pc' = "return"
    /\ UNCHANGED <<v_command, v_args, normalizer_vars, session_vars, summarizer_vars, extractor_vars,
                   executor_vars>>

ClassifyNext == Classify

SpecClassify == ClassifyInit /\ [][ClassifyNext]_vars

(***************************************************************************)
(* The normalizer as a pure function of the plan it is given.              *)
(***************************************************************************)
\* longest plan handed to the normalizer
MaxSteps == 2

Step(command, args) == JDict([command |-> command, args |-> args])

\* plan steps as the plan source may write them
RawSteps ==
    { JStr(<<"l","s"," ","-","l","a"," ","/","t","m","p">>),
      JStr(<<"e","c","h","o"," ","'","a"," ","b","'">>),
      JStr(<<"l","s"," ","&","&"," ","i","d">>),
      JStr(<<"l","s"," ","'",";","'">>),
      JStr(<<"c","a","t"," ","a","|","b">>),
      JStr(<<"e","c","h","o"," ","'","a">>),
      JStr(<<>>),
      JStr(<<"'","'"," ","l","s">>),
      Step(JStr(<<"f","i","n","d"," ","."," ","-","n","a","m","e">>), JList(<<JStr(<<"t","e","s","t",".","t","x","t">>)>>)),
      Step(JStr(<<"l","s">>), JStr(<<"-","l","a"," ","/","t","m","p">>)),
      Step(JStr(<<"l","s">>), JStr(<<"\"","a">>)),
      Step(JStr(<<"l","s">>), JList(<<JStr(<<"|">>)>>)),
      Step(JStr(<<">">>), JList(<<>>)),
      Step(JStr(<<"l","s">>), JList(<<JStr(<<"a",";","b">>)>>)),
      Step(JStr(<<"l","s">>), JList(<<JNum(1)>>)),
      Step(JStr(<<"l","s">>), JList(<<JList(<<>>)>>)),
      Step(JStr(<<"l","s">>), JNum(7)),
      Step(JStr(<<"'","m","y"," ","p","r","o","g","'"," ","x">>), JList(<<>>)),
      Step(JStr(<<" ">>), JList(<<>>)),
      Step(JStr(<<"l","s","\t","-","l","a">>), JList(<<>>)),
      Step(JStr(<<>>), JList(<<JStr(<<"x">>)>>)),
      Step(JNum(5), JList(<<>>)),
      Step(JNull, JList(<<JStr(<<"<">>)>>)),
      JDict([command |-> JStr(<<"w","h","i","c","h">>)]),
      JDict([args |-> JList(<<JStr(<<"x">>)>>)]),
      JNum(3),
      JList(<<JStr(<<"l","s">>)>>) }

RawPlans == { JDict([plan |-> JList(steps)]) : steps \in SeqUpTo(RawSteps, MaxSteps) }

NormalizeInit ==
    /\ n_pc = "call"
    /\ n_plan_data \in RawPlans
    /\ n_result = Ok(<<>>)
    /\ ClassifierIdle
    /\ SessionIdle
    /\ SummarizerIdle
    /\ ExtractorIdle
    /\ ExecutorIdle

Normalize ==
    /\ n_pc = "call"
    /\ n_result' = normalize_plan(n_plan_data)
    /\ n_pc' = "return"
    /\ UNCHANGED <<n_plan_data, classifier_vars, session_vars, summarizer_vars, extractor_vars,
                   executor_vars>>

NormalizeNext == Normalize

SpecNormalize == NormalizeInit /\ [][NormalizeNext]_vars

(***************************************************************************)
(* The session: main_agent.py.                                             *)
(***************************************************************************)
\* value of the iteration counter at which the model stops planning, in a
\* session with every kind of plan and in a session of SpecLoop
MaxPasses == 2
MaxIteration == 12
\* entries of History beyond which the model stops planning, in a session
\* with every kind of plan and in a session of SpecLoop
MaxHistory == 3
MaxLoopHistory == 7

\* the task given on the command line
user_prompt == <<"i","n","s","t","a","l","l"," ","v","i","m">>

\* the error object extract_json_object returns when it finds no JSON object
ErrorPlan == JDict([error |-> JStr(<<"F","a","i","l","e","d"," ","t","o"," ","e","x","t","r","a","c","t"," ","J","S","O","N"," ","f","r","o","m"," ","A","I"," ","r","e","s","p","o","n","s","e",".">>)])

\* Plans the plan source may answer with.
PlanValues ==
    { JDict([plan |-> JList(<<Step(JStr(<<"l","s">>), JList(<<JStr(<<"-","l","a">>)>>))>>)]),
      JDict([plan |-> JList(<<Step(JStr(<<"c","a","t">>), JList(<<JStr(<<"x">>)>>)),
                              JStr(<<"w","h","i","c","h"," ","v","i","m">>)>>)]),
      JDict([plan |-> JList(<<Step(JStr(<<"r","m">>), JList(<<JStr(<<"-","r","f">>), JStr(<<"/">>)>>))>>)]),
      JDict([plan |-> JList(<<Step(JStr(<<"s","u","d","o">>), JList(<<JStr(<<"a","p","t","-","g","e","t">>), JStr(<<"i","n","s","t","a","l","l">>)>>)),
                              Step(JStr(<<"l","s">>), JList(<<JStr(<<"-","l","a">>)>>))>>)]),
      JDict([plan |-> JList(<<JStr(<<"l","s"," ","&","&"," ","i","d">>)>>)]),
      JDict([plan |-> JList(<<JStr(<<"c","a","t"," ","a","|","b">>)>>)]),
      JDict([plan |-> JStr(<<"l","s">>)]),
      JDict([plan |-> JList(<<JStr(<<"e","c","h","o"," ","'","a">>)>>)]),
      JDict([error |-> JStr(<<"n","o"," ","p","l","a","n">>), plan |-> JList(<<JStr(<<"e","c","h","o"," ","'","a">>)>>)]),
      ErrorPlan }

\* a brace group that is not JSON
InvalidPlanText == <<"{","p","l","a","n",":"," ","l","s","}">>

\* the JSON text of each plan
PlanTexts == { <<JsonDumps(value), value>> : value \in PlanValues }

\* json.loads(text) on the texts of this model: the value whose JSON text it
\* is, or JSONDecodeError
json_loads(text) ==
    IF \E pair \in PlanTexts : pair[1] = text
    THEN Ok((CHOOSE pair \in PlanTexts : pair[1] = text)[2])
    ELSE Raise("JSONDecodeError")

\* the backend models of this model: the default one, taken to answer
\* briefly, and one named with --model, taken to answer at length
DefaultModel == <<"s","m","o","l","l","m","2",":","1",".","7","b">>
Models == { DefaultModel, <<"q","w","e","n","3">> }

\* The text of a response that the model spells out; the rest of it (the
\* reasoning, the fenced plan) is filler.
ThinkText == <<"<","t","h","i","n","k",">">>
\* the length of the filler of a short and of a long response
ShortReply == 100
LongReply == 4000
ReplyFiller(name) == IF name = DefaultModel THEN ShortReply ELSE LongReply

\* What one planning pass gets from the plan source: the full response and
\* the plan text extracted from it (after the retry, if any).  When the
\* plan source is unreachable the response is empty and the plan text is the
\* error object of the failed extraction.
Reply(full_ai_response, filler, text) ==
    [full_ai_response |-> full_ai_response, filler |-> filler, plan_json_str |-> text]

PlanSourceReplies(name) ==
    { Reply(ThinkText, ReplyFiller(name), text) :
          text \in {pair[1] : pair \in PlanTexts} \cup {InvalidPlanText} }
    \cup { Reply(<<>>, 0, JsonDumps(ErrorPlan)) }

Init ==
    /\ pc = "plan"
    /\ outcome = ""
    /\ isatty \in BOOLEAN
    /\ model \in Models
    /\ REQUIRE_PLAN_APPROVAL \in BOOLEAN
    /\ iteration = 0
    /\ history = <<Entry("user", user_prompt)>>
    /\ plan_json_str = <<>>
    /\ plan = <<>>
    /\ step_no = 0
    /\ execution_success = FALSE
    /\ executed = <<>>
    /\ compression = [trigger |-> "none", fallback |-> FALSE]
    /\ completion_answer = [raised |-> "none", value |-> <<>>]
    /\ history_file = [written |-> FALSE, content |-> <<>>]
    /\ failure_context = <<>>
    /\ plan_approval = [asked |-> FALSE, answer |-> "none"]
    /\ ClassifierIdle
    /\ NormalizerIdle
    /\ SummarizerIdle
    /\ ExtractorIdle
    /\ ExecutorIdle

\* The last action replaced History by a compressed one: on which path
\* ("size" at the start of planning, "restart" chosen by the user, "auto" at
\* 5 iterations), and whether a summarization request had failed first.
Compressed(trigger, fallback) == [trigger |-> trigger, fallback |-> fallback]
NoCompression == Compressed("none", FALSE)

\* what approve_plan returned for the plan of this pass, and whether it had
\* asked the user
Approval(asked, answer) == [asked |-> asked, answer |-> answer]
NoApproval == Approval(FALSE, "none")

\* an exception nobody catches ends the process
Fault ==
    /\ pc' = "done"
    /\ outcome' = "fault"

\* main, top of the loop: iteration += 1, then _handle_planning_phase
PlanningWith(replies, cap, room) ==
    /\ pc = "plan"
    /\ plan_approval' = NoApproval
    /\ iteration < cap
    /\ LET too_large == estimate_context_size(history) > MAX_CONTEXT_SIZE IN
       \E backend \in BackendStates :
        LET summarized == IF too_large THEN summarize_old_history(history, backend)
                          ELSE Ok(history)
        IN  /\ ~(too_large /\ Len(history) > 5) => backend = "up"
            /\ iteration' = iteration + 1
            /\ executed' = <<>>
            /\ IF summarized.raised # ""
               THEN /\ Fault
                    /\ compression' = NoCompression
                    /\ UNCHANGED <<history, plan_json_str, failure_context>>
               ELSE /\ Len(summarized.value) <= room
                    /\ failure_context' = get_failure_context(summarized.value)
                    /\ \E reply \in replies :
                         /\ history' = Append(summarized.value,
                                          LongEntry("assistant", reply.full_ai_response,
                                                    reply.filler))
                         /\ plan_json_str' = reply.plan_json_str
                    /\ compression' = IF summarized.value # history
                                      THEN Compressed("size", backend # "up")
                                      ELSE NoCompression
                    /\ pc' = "validate"
                    /\ UNCHANGED outcome
    /\ UNCHANGED <<isatty, model, REQUIRE_PLAN_APPROVAL, plan, step_no, execution_success,
                   completion_answer, history_file,
                   classifier_vars, normalizer_vars, summarizer_vars, extractor_vars,
                   executor_vars>>

Planning == PlanningWith(PlanSourceReplies(model), MaxPasses, MaxHistory)

\* str(x) inside an f-string
PyStr(x) == IF x.t = "str" THEN x.v ELSE PyRepr(x)

\* shlex.quote(arg) raises TypeError unless arg is a str
Quotable(plan_steps) ==
    \A k \in 1..Len(plan_steps) :
        LET given == Get(plan_steps[k], "args", JList(<<>>))
        IN  \A j \in 1..Len(given.v) : given.v[j].t = "str"

\* approve_plan: what the user may answer to the approval prompt
ApprovalAnswers(require_approval) ==
    IF ~require_approval \/ ~isatty THEN {"yes"} ELSE {"yes", "no", "skip"}

\* mutant: the entry of a failed pass goes to the front of the history
PassFailedPrepends(entry) ==
    /\ history' = <<entry>> \o history
    /\ execution_success' = FALSE
    /\ pc' = "plan"
    /\ UNCHANGED <<outcome, plan, step_no>>

\* the pass failed: `continue` in main
PassFailed(entry) ==
    /\ history' = Append(history, entry)
    /\ execution_success' = FALSE
    /\ pc' = "plan"
    /\ UNCHANGED <<outcome, plan, step_no>>

\* mutant: the plan is executed whatever approve_plan returned
ApprovedWhateverAnswer(plan_data, answer) ==
    /\ execution_success' = TRUE
    /\ IF Len(plan_data.v["plan"].v) = 0
       THEN pc' = "check" /\ UNCHANGED <<plan, step_no>>
       ELSE /\ pc' = "execute"
            /\ plan' = plan_data.v["plan"].v
            /\ step_no' = 1
    /\ UNCHANGED <<outcome, history>>

\* handle_plan_execution after approve_plan
Approved(plan_data, answer) ==
    IF answer = "no"
    THEN PassFailed(Entry("system",
             <<"U","s","e","r"," ","r","e","j","e","c","t","e","d"," ","t","h","e"," ","e","x","e","c","u","t","i","o","n"," ","p","l","a","n","."," ","P","l","e","a","s","e"," ","c","r","e","a","t","e"," ","a"," ","d","i","f","f","e","r","e","n","t"," ","a","p","p","r","o","a","c","h",".">>))
    ELSE IF answer = "skip"
    THEN /\ execution_success' = TRUE
         /\ pc' = "check"
         /\ UNCHANGED <<outcome, history, plan, step_no>>
    ELSE /\ execution_success' = TRUE
         /\ IF Len(plan_data.v["plan"].v) = 0
            THEN pc' = "check" /\ UNCHANGED <<plan, step_no>>
            ELSE /\ pc' = "execute"
                 /\ plan' = plan_data.v["plan"].v
                 /\ step_no' = 1
         /\ UNCHANGED <<outcome, history>>

\* handle_plan_execution up to the loop of execute_plan_steps: the checks of
\* plan_data, the display of the plan, approval
HandlePlan(plan_data) ==
    IF "error" \in DOMAIN plan_data.v
    THEN /\ PassFailed(Entry("system", <<"A","I"," ","s","e","r","v","i","c","e"," ","e","r","r","o","r",":"," ">> \o PyStr(plan_data.v["error"])))
         /\ plan_approval' = NoApproval
    ELSE IF ~HasPlanList(plan_data)
    THEN /\ PassFailed(Entry("system", <<"A","I"," ","r","e","t","u","r","n","e","d"," ","a","n"," ","i","n","v","a","l","i","d"," ","p","l","a","n",":"," ">> \o PyRepr(plan_data)))
         /\ plan_approval' = NoApproval
    ELSE IF ~Quotable(plan_data.v["plan"].v)
    THEN Fault /\ UNCHANGED <<history, plan, step_no, execution_success, plan_approval>>
    ELSE \E answer \in ApprovalAnswers(REQUIRE_PLAN_APPROVAL) :
         /\ plan_approval' = Approval(REQUIRE_PLAN_APPROVAL /\ isatty, answer)
         /\ Approved(plan_data, answer)

\* _handle_execution_phase after normalize_plan: its exceptions are not caught
HandleNormalized(normal) ==
    IF normal.raised # ""
    THEN Fault /\ UNCHANGED <<history, plan, step_no, execution_success, plan_approval>>
    ELSE HandlePlan(normal.value)

\* _handle_execution_phase after json.loads
HandleLoaded(loaded) ==
    IF loaded.raised # ""
    THEN /\ PassFailed(Entry("system", <<"A","I"," ","r","e","t","u","r","n","e","d"," ","i","n","v","a","l","i","d"," ","J","S","O","N",":"," ">> \o plan_json_str))
         /\ plan_approval' = NoApproval
    ELSE HandleNormalized(normalize_plan(loaded.value))

\* _handle_execution_phase up to the loop of execute_plan_steps
Validate ==
    /\ pc = "validate"
    /\ compression' = NoCompression
    /\ HandleLoaded(json_loads(plan_json_str))
    /\ UNCHANGED <<isatty, model, REQUIRE_PLAN_APPROVAL, iteration, plan_json_str, executed,
                   completion_answer, history_file, failure_context,
                   classifier_vars, normalizer_vars, summarizer_vars, extractor_vars,
                   executor_vars>>

\* confirm_sudo_execution: what the user may answer
SudoAnswers == IF ~isatty THEN {TRUE} ELSE {TRUE, FALSE}

\* the command line as the history entries print it
CommandLine(command, args) == command \o <<" ">> \o Join(<<" ">>, args)

\* mutant: a failed step does not break out of the loop
NextStepWithoutBreak(all_steps_succeeded, stop) ==
    IF step_no = Len(plan)
    THEN /\ execution_success' = all_steps_succeeded
         /\ pc' = IF all_steps_succeeded THEN "check" ELSE "plan"
         /\ step_no' = 0
         /\ plan' = <<>>
    ELSE /\ execution_success' = all_steps_succeeded
         /\ pc' = "execute"
         /\ step_no' = step_no + 1
         /\ plan' = plan

\* mutant: main goes on to the completion check after a failed pass too
NextStepAlwaysChecks(all_steps_succeeded, stop) ==
    IF stop \/ step_no = Len(plan)
    THEN /\ execution_success' = all_steps_succeeded
         /\ pc' = "check"
         /\ step_no' = 0
         /\ plan' = <<>>
    ELSE /\ execution_success' = all_steps_succeeded
         /\ pc' = "execute"
         /\ step_no' = step_no + 1
         /\ plan' = plan

\* the loop of execute_plan_steps goes on to the next step, or returns
NextStep(all_steps_succeeded, stop) ==
    IF stop \/ step_no = Len(plan)
    THEN /\ execution_success' = all_steps_succeeded
         /\ pc' = IF all_steps_succeeded THEN "check" ELSE "plan"
         /\ step_no' = 0
         /\ plan' = <<>>
    ELSE /\ execution_success' = all_steps_succeeded
         /\ pc' = "execute"
         /\ step_no' = step_no + 1
         /\ plan' = plan

\* the History entry of a step that went to execute_command
ExecutedEntry(command, args, done) ==
    Entry("system", <<"E","x","e","c","u","t","e","d"," ","'">> \o CommandLine(command, args)
                        \o <<"'","."," ","E","x","i","t"," ","c","o","d","e",":"," ">> \o IntStr(done.return_code)
                        \o <<"."," ","R","e","s","u","l","t",":","\n">> \o done.result)

\* one pass of the loop of execute_plan_steps
ExecuteStepWith(answers) ==
    /\ pc = "execute"
    /\ compression' = NoCompression
    /\ LET command == Get(plan[step_no], "command", JNull)
           args == [k \in 1..Len(Get(plan[step_no], "args", JList(<<>>)).v) |->
                        Get(plan[step_no], "args", JList(<<>>)).v[k].v]
       IN  IF ~Truthy(command)
           THEN /\ history' = Append(history, Entry("system", <<"S","k","i","p","p","e","d"," ","i","n","v","a","l","i","d"," ","s","t","e","p"," ","i","n"," ","p","l","a","n",".">>))
                /\ executed' = executed
                /\ NextStep(execution_success, FALSE)
           ELSE \E confirm \in SudoAnswers, os \in answers :
                IF command.v = <<"s","u","d","o">> /\ ~confirm
                THEN /\ history' = Append(history, Entry("system",
                              <<"C","a","n","c","e","l","l","e","d"," ","'">> \o CommandLine(command.v, args)
                                  \o <<"'","."," ","U","s","e","r"," ","d","e","c","l","i","n","e","d"," ","s","u","d","o",".">>))
                     /\ executed' = executed
                     /\ NextStep(FALSE, TRUE)
                ELSE LET done == execute_command(command.v, args, os) IN
                     /\ history' = Append(history, ExecutedEntry(command.v, args, done))
                     /\ executed' = Append(executed,
                              [step_no |-> step_no, command |-> command.v, args |-> args,
                               return_code |-> done.return_code, result |-> done.result,
                               spawn |-> done.spawn,
                               missing |-> /\ os.raised = "FileNotFoundError"
                                           /\ validate_command_safety(command.v, args).is_safe,
                               confirm |-> IF command.v # <<"s","u","d","o">> THEN "none"
                                           ELSE IF confirm THEN "yes" ELSE "no"])
                     /\ IF done.return_code # 0
                        THEN NextStep(FALSE, TRUE)
                        ELSE NextStep(execution_success, FALSE)
    /\ UNCHANGED <<outcome, isatty, model, REQUIRE_PLAN_APPROVAL, iteration, plan_json_str,
                   completion_answer, history_file, failure_context, plan_approval,
                   classifier_vars, normalizer_vars, summarizer_vars, extractor_vars,
                   executor_vars>>

ExecuteStep == ExecuteStepWith(OsAnswers)

\* str.lower() on ASCII letters
UpperCase == <<"A","B","C","D","E","F","G","H","I","J","K","L","M","N","O","P","Q","R","S","T","U","V","W","X","Y","Z">>
LowerCase == <<"a","b","c","d","e","f","g","h","i","j","k","l","m","n","o","p","q","r","s","t","u","v","w","x","y","z">>

LowerChar(c) ==
    IF \E k \in 1..Len(UpperCase) : UpperCase[k] = c
    THEN LowerCase[CHOOSE k \in 1..Len(UpperCase) : UpperCase[k] = c]
    ELSE c

Lower(s) == [k \in 1..Len(s) |-> LowerChar(s[k])]

_is_command_successful(last_command) ==
    \/ Contains(<<"E","x","i","t"," ","c","o","d","e",":"," ","0">>, last_command)
    \/ Contains(<<"w","h","i","c","h">>, last_command) /\ Contains(<<"E","x","i","t"," ","c","o","d","e",":"," ","1">>, last_command)

\* check_if_task_complete before its request: FALSE when it returns False
\* without asking the plan source
CompletionIsAsked(h) ==
    LET last_result == IF Len(h) > 0 /\ h[Len(h)].role = "system"
                       THEN h[Len(h)].content ELSE <<>>
    IN  \/ Contains(<<"E","x","i","t"," ","c","o","d","e",":"," ","0">>, last_result)
        \/ Contains(<<"s","u","c","c","e","s","s">>, Lower(last_result))
        \/ Contains(<<"w","h","i","c","h">>, last_result) /\ Contains(<<"E","x","i","t"," ","c","o","d","e",":"," ","1">>, last_result)

\* the answers of the plan source to the completion question
CompletionAnswers ==
    { Ok(<<"C","O","M","P","L","E","T","E">>), Ok(<<"c","o","m","p","l","e","t","e","\n">>), Ok(<<"C","O","N","T","I","N","U","E","\n">>), Ok(<<"I","N","C","O","M","P","L","E","T","E">>),
      Ok(<<"N","O","T"," ","C","O","M","P","L","E","T","E">>), Raise("RequestException") }

\* no request was made for the completion question
NoAnswer == [raised |-> "none", value |-> <<>>]

\* str.upper() on the letters of the texts of this model
Upper(s) ==
    [k \in 1..Len(s) |->
        CASE s[k] = "c" -> "C" [] s[k] = "o" -> "O" [] s[k] = "m" -> "M"
          [] s[k] = "p" -> "P" [] s[k] = "l" -> "L" [] s[k] = "e" -> "E"
          [] s[k] = "t" -> "T" [] s[k] = "n" -> "N" [] s[k] = "i" -> "I"
          [] s[k] = "u" -> "U"
          [] OTHER -> s[k]]

check_if_task_complete(h, answer) ==
    /\ CompletionIsAsked(h)
    /\ answer.raised = ""
    /\ Contains(<<"C","O","M","P","L","E","T","E">>, Upper(Strip(answer.value)))

\* the summary the plan source streams at the end ("" when it is unreachable)
TaskSummaries == { <<"d","o","n","e">>, <<>> }

\* _check_task_completion, and the return from main when the task is complete
CheckCompletion ==
    /\ pc = "check"
    /\ compression' = NoCompression
    /\ LET last_command == IF Len(history) > 0 THEN history[Len(history)].content ELSE <<>>
       IN  \E answer \in CompletionAnswers, summary \in TaskSummaries :
           /\ completion_answer' =
                  IF _is_command_successful(last_command) /\ CompletionIsAsked(history)
                  THEN answer ELSE NoAnswer
           /\ IF _is_command_successful(last_command) /\ check_if_task_complete(history, answer)
              THEN /\ history' = Append(history, Entry("assistant", <<"S","u","m","m","a","r","y",":"," ">> \o summary))
                   /\ pc' = "done"
                   /\ outcome' = "complete"
              ELSE /\ pc' = "control"
                   /\ UNCHANGED <<history, outcome>>
    /\ UNCHANGED <<isatty, model, REQUIRE_PLAN_APPROVAL, iteration, plan_json_str, plan, step_no,
                   execution_success, executed, history_file, failure_context, plan_approval,
                   classifier_vars, normalizer_vars, summarizer_vars, extractor_vars,
                   executor_vars>>

\* get_user_continuation_choice: q quits, r restarts, a toggles approval,
\* anything else continues
UserChoices == {"q", "r", "a", ""}

\* the ceiling of main: `if iteration > 10`
MaxIterations == 10

\* mutant: iteration control hands back the counter it was given
LoopEndKeepsCounter(should_continue, new_iteration) ==
    /\ iteration' = iteration
    /\ IF ~should_continue THEN pc' = "done" /\ outcome' = "quit"
       ELSE IF iteration > MaxIterations THEN pc' = "done" /\ outcome' = "max_iterations"
       ELSE pc' = "plan" /\ outcome' = outcome

\* after handle_iteration_control: `if not should_continue: return`, then
\* `if iteration > 10: break`
LoopEnd(should_continue, new_iteration) ==
    /\ iteration' = new_iteration
    /\ IF ~should_continue THEN pc' = "done" /\ outcome' = "quit"
       ELSE IF new_iteration > MaxIterations THEN pc' = "done" /\ outcome' = "max_iterations"
       ELSE pc' = "plan" /\ outcome' = outcome

\* handle_iteration_control (with _handle_user_choice) and the end of the loop body
IterationControl ==
    /\ pc = "control"
    /\ completion_answer' = NoAnswer
    /\ \E user_input \in UserChoices, backend \in BackendStates :
        LET prompted == iteration >= 3 /\ isatty
            compresses == \/ prompted /\ user_input = "r"
                          \/ ~prompted /\ iteration >= 5
            summarized == IF compresses THEN summarize_old_history(history, backend)
                          ELSE Ok(history)
        IN  /\ ~prompted => user_input = ""
            /\ ~(compresses /\ Len(history) > 5) => backend = "up"
            /\ IF summarized.raised # ""
               THEN /\ Fault
                    /\ compression' = NoCompression
                    /\ UNCHANGED <<history, iteration, REQUIRE_PLAN_APPROVAL>>
               ELSE /\ history' = summarized.value
                    /\ compression' = IF summarized.value = history THEN NoCompression
                                      ELSE IF prompted
                                      THEN Compressed("restart", backend # "up")
                                      ELSE Compressed("auto", backend # "up")
                    /\ REQUIRE_PLAN_APPROVAL' =
                           IF prompted /\ user_input = "a" THEN ~REQUIRE_PLAN_APPROVAL
                           ELSE REQUIRE_PLAN_APPROVAL
                    /\ IF prompted /\ user_input = "q" THEN LoopEnd(FALSE, 0)
                       ELSE IF compresses THEN LoopEnd(TRUE, 0)
                       ELSE LoopEnd(TRUE, iteration)
    /\ UNCHANGED <<isatty, model, plan_json_str, plan, step_no, execution_success, executed,
                   history_file, failure_context, plan_approval,
                   classifier_vars, normalizer_vars, summarizer_vars, extractor_vars,
                   executor_vars>>

Next ==
    \/ Planning
    \/ Validate
    \/ ExecuteStep
    \/ CheckCompletion
    \/ IterationControl

Spec == Init /\ [][Next]_vars

(***************************************************************************)
(* The same session with a plan source that answers with one plan or with  *)
(* text that is not JSON, and commands that exit 0 or 1: the loop is       *)
(* followed up to MaxIteration passes.                                     *)
(***************************************************************************)
LoopReplies(name) ==
    { Reply(ThinkText, ReplyFiller(name), text) :
          text \in { JsonDumps(JDict([plan |->
                         JList(<<Step(JStr(<<"l","s">>), JList(<<JStr(<<"-","l","a">>)>>))>>)])),
                     InvalidPlanText } }

LoopOsAnswers == { Exit(0, <<>>, <<>>), Exit(1, <<>>, <<"f","a","i","l","e","d","\n">>) }

LoopPlanning == PlanningWith(LoopReplies(model), MaxIteration, MaxLoopHistory)
LoopExecuteStep == ExecuteStepWith(LoopOsAnswers)

LoopNext ==
    \/ LoopPlanning
    \/ Validate
    \/ LoopExecuteStep
    \/ CheckCompletion
    \/ IterationControl

\* the session is started without --approve
LoopInit == Init /\ ~REQUIRE_PLAN_APPROVAL

SpecLoop == LoopInit /\ [][LoopNext]_vars

(***************************************************************************)
(* ai_client.py: extraction of the plan text from a response.              *)
(***************************************************************************)
\* the one character U+0060 of which a code fence is made
Backtick == "U+0060"
Fence == <<Backtick, Backtick, Backtick>>

\* the characters \s matches
ReWhitespace == {" ", "\t", "\n", "\r"}

\* Optional[str]
Found(text) == [found |-> TRUE, text |-> text]
NotFound == [found |-> FALSE, text |-> <<>>]

\* text[p:].startswith(sub), p counted from 1
StartsAt(text, p, sub) ==
    /\ p + Len(sub) - 1 <= Len(text)
    /\ SubSeq(text, p, p + Len(sub) - 1) = sub

\* where \s* stops when it starts at p
RECURSIVE SkipWhitespace(_, _)
SkipWhitespace(text, p) ==
    IF p <= Len(text) /\ text[p] \in ReWhitespace THEN SkipWhitespace(text, p + 1) ELSE p

\* the closing braces that \}\s*``` can match after the opening brace at b
FenceEnds(text, b) ==
    { q \in (b + 1)..Len(text) :
          text[q] = "}" /\ StartsAt(text, SkipWhitespace(text, q + 1), Fence) }

\* the pattern opener\s*(\{[\s\S]*?\})\s*``` matches at p (re.IGNORECASE
\* makes no difference to an opener without letters)
FencedAt(text, p, opener) ==
    /\ p + Len(opener) - 1 <= Len(text)
    /\ Lower(SubSeq(text, p, p + Len(opener) - 1)) = opener
    /\ SkipWhitespace(text, p + Len(opener)) <= Len(text)
    /\ text[SkipWhitespace(text, p + Len(opener))] = "{"
    /\ FenceEnds(text, SkipWhitespace(text, p + Len(opener))) # {}

SetMin(S) == CHOOSE m \in S : \A other \in S : m <= other

\* re.search of that pattern: group 1 of the leftmost match, whose lazy
\* quantifier stops at the first closing brace that the fence follows
SearchFenced(text, opener) ==
    LET starts == { p \in 1..Len(text) : FencedAt(text, p, opener) } IN
    IF starts = {} THEN NotFound
    ELSE LET b == SkipWhitespace(text, SetMin(starts) + Len(opener))
         IN  Found(SubSeq(text, b, SetMin(FenceEnds(text, b))))

_extract_from_fenced_block(text) ==
    IF SearchFenced(text, Fence \o <<"j","s","o","n">>).found
    THEN SearchFenced(text, Fence \o <<"j","s","o","n">>)
    ELSE SearchFenced(text, Fence)

\* the loop of _extract_with_balanced_braces from character i on; start is
\* -1 when no group is open
RECURSIVE ScanBraces(_, _, _, _, _, _)
ScanBraces(text, i, in_str, esc, depth, start) ==
    IF i > Len(text) THEN NotFound
    ELSE LET ch == text[i]
             \* _update_string_state
             new_esc == IF ch = "\"" /\ ~esc THEN FALSE
                        ELSE IF ch = "\\" THEN ~esc ELSE FALSE
             new_in_str == IF ch = "\"" /\ ~esc THEN ~in_str ELSE in_str
             \* _should_skip_char
             should_skip == new_esc \/ ch = "\\" \/ ch = "\"" \/ new_in_str
         IN  IF should_skip
             THEN ScanBraces(text, i + 1, new_in_str, new_esc, depth, start)
             ELSE IF ch = "{"
             \* _handle_opening_brace
             THEN ScanBraces(text, i + 1, new_in_str, new_esc, depth + 1,
                             IF depth = 0 THEN i ELSE -1)
             ELSE IF ch = "}"
             \* _handle_closing_brace
             THEN IF depth - 1 = 0 /\ start # -1
                  THEN Found(SubSeq(text, start, i))
                  ELSE ScanBraces(text, i + 1, new_in_str, new_esc, depth - 1, start)
             ELSE ScanBraces(text, i + 1, new_in_str, new_esc, depth, start)

_extract_with_balanced_braces(text) == ScanBraces(text, 1, FALSE, FALSE, 0, -1)

extract_json_object(text) ==
    IF _extract_from_fenced_block(text).found THEN _extract_from_fenced_block(text).text
    ELSE IF _extract_with_balanced_braces(text).found
    THEN _extract_with_balanced_braces(text).text
    ELSE JsonDumps(ErrorPlan)

\* a plan text and the number of retry requests sent to get it
Extraction(text, requests) == [plan_json_str |-> text, requests |-> requests]

\* extract_json_with_retry; retry is the outcome of its request, if it sends one
extract_json_with_retry(text, retry) ==
    IF Contains(<<"\"","e","r","r","o","r","\"">>, extract_json_object(text))
    THEN IF retry.raised = ""
         THEN Extraction(extract_json_object(retry.value), 1)
         ELSE Extraction(extract_json_object(text), 1)
    ELSE Extraction(extract_json_object(text), 0)

\* _handle_planning_phase, from the response to the plan text of the pass
PlanTextOf(full_ai_response, retry) ==
    IF Contains(<<"\"","e","r","r","o","r","\"">>, extract_json_object(full_ai_response))
    THEN extract_json_with_retry(full_ai_response, retry)
    ELSE Extraction(extract_json_object(full_ai_response), 0)

(***************************************************************************)
(* summarize_old_history as a pure function of the history it is given and *)
(* of the fate of its requests.                                            *)
(***************************************************************************)
\* longest history handed to the summarizer
MaxSummarized == 7

\* entries a session appends after the user's request
HistoryEntries ==
    { Entry("system", <<"S","k","i","p","p","e","d"," ","i","n","v","a","l","i","d"," ","s","t","e","p"," ","i","n"," ","p","l","a","n",".">>),
      LongEntry("assistant", ThinkText, ShortReply),
      LongEntry("assistant", ThinkText, LongReply) }

SummarizerHistories ==
    { <<Entry("user", user_prompt)>> \o rest : rest \in SeqUpTo(HistoryEntries, MaxSummarized - 1) }

SummarizeInit ==
    /\ s_pc = "call"
    /\ s_history \in SummarizerHistories
    /\ s_backend \in BackendStates
    /\ s_result = Ok(<<>>)
    /\ ClassifierIdle
    /\ NormalizerIdle
    /\ SessionIdle
    /\ ExtractorIdle
    /\ ExecutorIdle

Summarize ==
    /\ s_pc = "call"
    /\ s_result' = summarize_old_history(s_history, s_backend)
    /\ s_pc' = "return"
    /\ UNCHANGED <<s_history, s_backend, classifier_vars, normalizer_vars, session_vars,
                   extractor_vars, executor_vars>>

SummarizeNext == Summarize

SpecSummarize == SummarizeInit /\ [][SummarizeNext]_vars

(***************************************************************************)
(* Extraction as a pure function of the response: the response is made of  *)
(* segments, each a JSON object or a line of prose, bare or inside a code  *)
(* fence.                                                                  *)
(***************************************************************************)
MaxSegments == 2

FlatPlanText == <<"{","\"","p","l","a","n","\"",":"," ","[","\"","l","s","\"","]","}">>
StepsPlanText == <<"{","\"","p","l","a","n","\"",":"," ","[","{","\"","c","o","m","m","a","n","d","\"",":"," ","\"","l","s","\"",","," ","\"","a","r","g","s","\"",":"," ","[","]","}","]","}">>
GrepPlanText == <<"{","\"","p","l","a","n","\"",":"," ","[","{","\"","c","o","m","m","a","n","d","\"",":"," ","\"","g","r","e","p","\"",","," ","\"","a","r","g","s","\"",":"," ","[","\"","e","r","r","o","r","\"",","," ","\"","l","o","g","\"","]","}","]","}">>
RefusalText == <<"{","\"","e","r","r","o","r","\"",":"," ","\"","c","a","n","n","o","t"," ","d","o"," ","t","h","a","t","\"","}">>
BraceInStringText == <<"{","\"","p","l","a","n","\"",":"," ","[","\"","e","c","h","o"," ","}","\"","]","}">>
ProseText == <<"H","e","r","e"," ","i","s"," ","t","h","e"," ","p","l","a","n",":">>

ObjectTexts == {FlatPlanText, StepsPlanText, GrepPlanText, RefusalText}

\* wrapper "bare" is no fence; "json", "JSON" and "text" are fences with that
\* language tag; "fence" is a fence without a tag
Segment(wrapper, body) == [wrapper |-> wrapper, body |-> body]

Segments ==
    { Segment(w, b) : w \in {"bare", "json", "fence", "text"}, b \in ObjectTexts }
        \cup { Segment("bare", ProseText), Segment("bare", BraceInStringText),
               Segment("JSON", BraceInStringText) }

RenderSegment(seg) ==
    CASE seg.wrapper = "bare"  -> seg.body
      [] seg.wrapper = "json"  -> Fence \o <<"j","s","o","n","\n">> \o seg.body \o <<"\n">> \o Fence
      [] seg.wrapper = "JSON"  -> Fence \o <<"J","S","O","N","\n">> \o seg.body \o <<"\n">> \o Fence
      [] seg.wrapper = "text"  -> Fence \o <<"t","e","x","t","\n">> \o seg.body \o <<"\n">> \o Fence
      [] seg.wrapper = "fence" -> Fence \o <<"\n">> \o seg.body \o <<"\n">> \o Fence

Response(segs) == Join(<<"\n">>, [k \in 1..Len(segs) |-> RenderSegment(segs[k])])

Responses == UNION { [1..n -> Segments] : n \in 1..MaxSegments }

\* what the retry request can come back with
RetryOutcomes ==
    { Raise("RequestException"),
      Ok(Response(<<Segment("json", FlatPlanText)>>)),
      Ok(<<"I"," ","a","m"," ","s","o","r","r","y",".">>) }

NoExtraction == [extracted |-> <<>>, plan_json_str |-> <<>>, requests |-> 0]

ExtractInit ==
    /\ x_pc = "call"
    /\ x_segments \in Responses
    /\ x_retry \in RetryOutcomes
    /\ x_result = NoExtraction
    /\ ClassifierIdle
    /\ NormalizerIdle
    /\ SessionIdle
    /\ SummarizerIdle
    /\ ExecutorIdle

\* stream_and_extract_plan on a response that arrived, then the rest of
\* _handle_planning_phase
Extract ==
    /\ x_pc = "call"
    /\ x_result' =
           [extracted |-> extract_json_object(Response(x_segments)),
            plan_json_str |-> PlanTextOf(Response(x_segments), x_retry).plan_json_str,
            requests |-> PlanTextOf(Response(x_segments), x_retry).requests]
    /\ x_pc' = "return"
    /\ UNCHANGED <<x_segments, x_retry, classifier_vars, normalizer_vars, session_vars,
                   summarizer_vars, executor_vars>>

ExtractNext == Extract

SpecExtract == ExtractInit /\ [][ExtractNext]_vars

(***************************************************************************)
(* One step of execute_plan_steps that goes to execute_command, as a       *)
(* function of the step, of the answer of the operating system and of the  *)
(* state of the audit log.                                                 *)
(***************************************************************************)
MaxExecArgs == 2

ExecCommands == { <<"l","s">>, <<"c","a","t">>, <<"r","m">> }

ExecArgs == { <<"-","l","a">>, <<"&">>, <<"a","&","b">>, <<"&","&">>, <<"a","|","b">>, <<">">>, <<"<">>, <<"o","u","t">> }

ExecOsAnswers ==
    OsAnswers \cup
        { Exit(2, <<>>, <<"N","o"," ","s","u","c","h"," ","f","i","l","e"," ","o","r"," ","d","i","r","e","c","t","o","r","y","\n">>),
          SpawnFails("PermissionError", <<"[","E","r","r","n","o"," ","1","3","]"," ","P","e","r","m","i","s","s","i","o","n"," ","d","e","n","i","e","d",":"," ","'","l","s","'">>) }

\* the audit log before the step: empty, or with the line of _setup_session
PriorLogs == { <<>>, <<LogLine("INFO", <<"=","=","="," ","N","Y","X"," ","A","G","E","N","T"," ","S","E","S","S","I","O","N"," ","S","T","A","R","T","E","D"," ","=","=","=">>)>> }

ExecuteInit ==
    /\ e_pc = "call"
    /\ e_command \in ExecCommands
    /\ e_args \in SeqUpTo(ExecArgs, MaxExecArgs)
    /\ e_os \in ExecOsAnswers
    /\ e_writable \in BOOLEAN
    /\ e_log \in PriorLogs
    /\ e_result = Executed(0, <<>>, "none")
    /\ e_entry = Entry("system", <<>>)
    /\ ClassifierIdle
    /\ NormalizerIdle
    /\ SessionIdle
    /\ SummarizerIdle
    /\ ExtractorIdle

\* execute_command(command, args) and the append of its result to History
RunStep ==
    /\ e_pc = "call"
    /\ e_result' = execute_command(e_command, e_args, e_os)
    /\ e_log' = Logged(e_log, Audited(e_command, e_args, e_os), e_writable)
    /\ e_entry' = ExecutedEntry(e_command, e_args, execute_command(e_command, e_args, e_os))
    /\ e_pc' = "return"
    /\ UNCHANGED <<e_command, e_args, e_os, e_writable, classifier_vars, normalizer_vars,
                   session_vars, summarizer_vars, extractor_vars>>

ExecuteNext == RunStep

SpecExecute == ExecuteInit /\ [][ExecuteNext]_vars

(***************************************************************************)
(* Claims about the classifier (checked under SpecClassify).               *)
(***************************************************************************)
\* C2: every command of the deny-set is Denied whatever the arguments, and the
\* reason is the deny-list one: the deny-set is consulted before the allow-set.
C2_DenySetAlwaysDenied ==
    (v_pc = "return" /\ v_command \in DANGEROUS_COMMANDS) =>
        /\ ~v_result.is_safe
        /\ v_result.message =
               <<"C","o","m","m","a","n","d"," ","'">> \o v_command \o <<"'"," ","i","s"," ","i","n"," ","t","h","e"," ","d","a","n","g","e","r","o","u","s"," ","c","o","m","m","a","n","d","s"," ","l","i","s","t">>

C2_Witness ==
    /\ v_pc = "return"
    /\ v_command = <<"r","m">>
    /\ v_args = << <<"-","r","f">>, <<>> >>
    /\ ~v_result.is_safe

\* C3: for every command other than sudo, the verdict is Allowed exactly when
\* the command is in the allow-set and not in the deny-set (case-sensitive),
\* whatever the arguments.
C3_AllowedIffInAllowSet ==
    (v_pc = "return" /\ v_command # <<"s","u","d","o">>) =>
        (v_result.is_safe <=>
            (v_command \in ALLOWED_COMMANDS /\ v_command \notin DANGEROUS_COMMANDS))

C3_Witness ==
    /\ v_pc = "return"
    /\ v_command = <<"L","S">>
    /\ v_args = << <<"-","r","f">>, <<"-","-","f","o","r","c","e">> >>
    /\ ~v_result.is_safe

\* C4: for sudo, the verdict is Allowed exactly when the argument list is
\* non-empty, its first argument is in the reduced safe-target set and no
\* argument contains -rf, --force or --no-preserve-root as a substring.
C4_SudoAllowedIff ==
    (v_pc = "return" /\ v_command = <<"s","u","d","o">>) =>
        (v_result.is_safe <=>
            /\ Len(v_args) > 0
            /\ v_args[1] \in SAFE_SUDO_COMMANDS
            /\ \A i \in 1..Len(v_args) :
                   /\ ~Contains(<<"-","r","f">>, v_args[i])
                   /\ ~Contains(<<"-","-","f","o","r","c","e">>, v_args[i])
                   /\ ~Contains(<<"-","-","n","o","-","p","r","e","s","e","r","v","e","-","r","o","o","t">>, v_args[i]))

C4_Witness ==
    /\ v_pc = "return"
    /\ v_command = <<"s","u","d","o">>
    /\ v_args = << <<"a","p","t","-","g","e","t">>, <<"-","r","f","v">> >>
    /\ ~v_result.is_safe

(***************************************************************************)
(* Claims about the normalizer (checked under SpecNormalize).              *)
(***************************************************************************)
\* the (command, args) assembled for a string or structured step
Assembled(step) ==
    IF step.t = "str" THEN _normalize_string_step(step) ELSE _normalize_dict_step(step)

\* the steps the normalizer is said to drop: one that is neither string nor
\* structured object, one whose command or argument equals a shell-operator
\* token, one whose command is empty
SaidToBeDropped(step) ==
    \/ step.t \notin {"str", "dict"}
    \/ /\ Assembled(step).raised = ""
       /\ LET a == Assembled(step).value IN
          \/ InBanned(a.cmd)
          \/ \E k \in 1..Len(a.args) : InBanned(a.args[k])
          \/ ~Truthy(a.cmd)

\* the steps said to survive, in input order
RECURSIVE SaidToSurvive(_)
SaidToSurvive(steps) ==
    IF Len(steps) = 0 THEN <<>>
    ELSE IF SaidToBeDropped(steps[1]) THEN SaidToSurvive(Tail(steps))
    ELSE <<steps[1]>> \o SaidToSurvive(Tail(steps))

\* C10: normalize drops exactly the steps with a shell-operator token, the
\* steps that are neither string nor object and the steps with an empty command,
\* step by step and without aborting the plan; every other step survives and
\* the output holds the survivors in input order.
C10_DropsExactlyUnsafeSteps ==
    n_pc = "return" =>
        LET survivors == SaidToSurvive(n_plan_data.v["plan"].v) IN
        /\ n_result.raised = ""
        /\ Len(n_result.value.v["plan"].v) = Len(survivors)
        /\ \A k \in 1..Len(survivors) :
               /\ Assembled(survivors[k]).raised = ""
               /\ n_result.value.v["plan"].v[k] =
                      Step(Assembled(survivors[k]).value.cmd,
                           JList(Assembled(survivors[k]).value.args))

\* C11: normalization is idempotent: normalizing a normalized plan returns it
\* unchanged, step by step, command by command, argument by argument.
C11_NormalizeIsIdempotent ==
    (n_pc = "return" /\ n_result.raised = "") =>
        normalize_plan(n_result.value) = Ok(n_result.value)

\* the args a structured step brings itself: the entries of an array, the
\* tokens of a string, nothing otherwise
OwnArgs(step) ==
    LET given == Get(step, "args", JList(<<>>))
    IN  IF given.t = "list" THEN given.v
        ELSE IF given.t = "str" THEN StrList(shlex_split(given.v).value)
        ELSE <<>>

HasWhitespace(s) == \E k \in 1..Len(s) : s[k] \in ShlexWhitespace
HasSpace(s) == \E k \in 1..Len(s) : s[k] = " "

\* the command and args the claim gives for a surviving step, when a command
\* field is split if it contains whitespace (on_space FALSE) or if it contains
\* a space character (on_space TRUE)
TokensOfStep(step, on_space) ==
    IF step.t = "str"
    THEN Step(JStr(shlex_split(step.v).value[1]),
              JList(StrList(Tail(shlex_split(step.v).value))))
    ELSE IF /\ step.v["command"].t = "str"
            /\ IF on_space THEN HasSpace(step.v["command"].v)
               ELSE HasWhitespace(step.v["command"].v)
    THEN Step(JStr(shlex_split(step.v["command"].v).value[1]),
              JList(StrList(Tail(shlex_split(step.v["command"].v).value)) \o OwnArgs(step)))
    ELSE Step(step.v["command"], JList(OwnArgs(step)))

\* each step of the output is the one the claim gives for the surviving step
\* of the input at the same place
StepsAreTokens(on_space) ==
    (n_pc = "return" /\ n_result.raised = "") =>
        LET survivors == SaidToSurvive(n_plan_data.v["plan"].v)
            output == n_result.value.v["plan"].v
        IN  /\ Len(output) = Len(survivors)
            /\ \A k \in 1..Len(output) : output[k] = TokensOfStep(survivors[k], on_space)

\* C12 as stated: a string step gives command = first token, args = the other
\* tokens in order; a structured step whose command field contains whitespace
\* gives command = first token of the field, args = the other tokens of the
\* field followed by the step's own args.
C12_SplitsOnWhitespace == StepsAreTokens(FALSE)

\* C12 as amended: the same, for a structured step whose command field
\* contains a space character; a command field with other whitespace only
\* (a tab) is kept whole.
C12_SplitsOnSpace == StepsAreTokens(TRUE)

C12_Witness ==
    /\ n_pc = "return"
    /\ n_plan_data = JDict([plan |-> JList(<<
           JStr(<<"l","s"," ","-","l","a"," ","/","t","m","p">>),
           Step(JStr(<<"f","i","n","d"," ","."," ","-","n","a","m","e">>), JList(<<JStr(<<"t","e","s","t",".","t","x","t">>)>>)) >>)])
    /\ n_result = Ok(JDict([plan |-> JList(<<
           Step(JStr(<<"l","s">>), JList(<<JStr(<<"-","l","a">>), JStr(<<"/","t","m","p">>)>>)),
           Step(JStr(<<"f","i","n","d">>), JList(<<JStr(<<".">>), JStr(<<"-","n","a","m","e">>), JStr(<<"t","e","s","t",".","t","x","t">>)>>)) >>)]))

\* the shell metacharacters of the Step invariant
ShellMetacharacters == {"&", "|", ";", "<", ">"}

HasMetacharacter(x) ==
    x.t = "str" /\ \E k \in 1..Len(x.v) : x.v[k] \in ShellMetacharacters

\* C13: in a normalized plan neither the command nor any of the args of a step
\* contains a shell metacharacter; a step that would is dropped.
C13_NoMetacharacterSurvives ==
    (n_pc = "return" /\ n_result.raised = "") =>
        \A k \in 1..Len(n_result.value.v["plan"].v) :
            LET kept == n_result.value.v["plan"].v[k].v IN
            /\ ~HasMetacharacter(kept["command"])
            /\ \A j \in 1..Len(kept["args"].v) : ~HasMetacharacter(kept["args"].v[j])

\* C14: every step of a normalized plan has a non-empty string command and
\* args made of strings only: an args array with a non-string entry is taken
\* as empty.
C14_ArgsAreStrings ==
    (n_pc = "return" /\ n_result.raised = "") =>
        \A k \in 1..Len(n_result.value.v["plan"].v) :
            LET kept == n_result.value.v["plan"].v[k].v IN
            /\ kept["command"].t = "str"
            /\ kept["command"].v # <<>>
            /\ \A j \in 1..Len(kept["args"].v) : kept["args"].v[j].t = "str"

(***************************************************************************)
(* Claims about the session (checked under Spec and SpecLoop).             *)
(***************************************************************************)
\* the pass has not gone through iteration control: History holds, after the
\* response of this pass, what the execution phase appended
InExecutionPhase ==
    \/ pc \in {"execute", "check"}
    \/ pc = "plan" /\ iteration > 0 /\ ~execution_success

\* the entries appended to History after the last response of the plan source
RECURSIVE SinceLastResponse(_)
SinceLastResponse(h) ==
    IF Len(h) = 0 \/ h[Len(h)].role = "assistant" THEN <<>>
    ELSE Append(SinceLastResponse(SubSeq(h, 1, Len(h) - 1)), h[Len(h)])

IsExecutionEntry(h) == SubSeq(h.content, 1, Len(<<"E","x","e","c","u","t","e","d"," ","'">>)) = <<"E","x","e","c","u","t","e","d"," ","'">>

\* C1: a process is spawned for a step only if the classifier allows that
\* (command, args); a denied step returns exit code 1 and a rejection message
\* that contains the denial reason, and spawns nothing.
C1_SpawnOnlyWhenAllowed ==
    \A k \in 1..Len(executed) :
        LET verdict == validate_command_safety(executed[k].command, executed[k].args) IN
        /\ executed[k].spawn # "none" => verdict.is_safe
        /\ ~verdict.is_safe =>
               /\ executed[k].return_code = 1
               /\ executed[k].spawn = "none"
               /\ Contains(<<"b","l","o","c","k","e","d">>, executed[k].result)
               /\ Contains(verdict.message, executed[k].result)

C1_Witness ==
    /\ Len(executed) = 1
    /\ executed[1].command = <<"r","m">>
    /\ executed[1].args = << <<"-","r","f">>, <<"/">> >>
    /\ executed[1].return_code = 1
    /\ executed[1].spawn = "none"
    /\ pc = "plan"

C6_CeilingStopsLoop ==
    pc = "plan" => iteration <= MaxIterations

ZeroStepPlan ==
    /\ json_loads(plan_json_str).raised = ""
    /\ normalize_plan(json_loads(plan_json_str).value).raised = ""
    /\ HasPlanList(normalize_plan(json_loads(plan_json_str).value).value)
    /\ Len(normalize_plan(json_loads(plan_json_str).value).value.v["plan"].v) = 0

\* C8: a plan with zero valid steps after normalization is a malformed plan:
\* the pass is marked failed and never goes on to completion checking and
\* iteration control.
C8_ZeroStepPlanIsMalformed ==
    (ZeroStepPlan /\ pc \in {"check", "control"}) => ~execution_success

\* C9: a which step that exits 1 is a success for the loop: the plan is not
\* marked failed (and History records exit code 1).
C9_WhichExitOneIsSuccess ==
    (/\ Len(executed) > 0
     /\ executed[Len(executed)].command = <<"w","h","i","c","h">>
     /\ executed[Len(executed)].return_code = 1
     /\ executed[Len(executed)].spawn # "none") =>
        /\ execution_success
        /\ pc \in {"execute", "check", "control", "done"}
        /\ InExecutionPhase =>
               Contains(<<"E","x","i","t"," ","c","o","d","e",":"," ","1">>, history[Len(history)].content)

\* the plan text of this pass parses as a JSON object and its content makes
\* normalize_plan or the display of the plan raise
PlanContentRaises ==
    /\ json_loads(plan_json_str).raised = ""
    /\ \/ normalize_plan(json_loads(plan_json_str).value).raised # ""
       \/ /\ HasPlanList(normalize_plan(json_loads(plan_json_str).value).value)
          /\ ~Quotable(normalize_plan(json_loads(plan_json_str).value).value.v["plan"].v)

\* C15: whatever the shape of the steps of a plan that parses as a JSON
\* object, the pass ends by dropping steps or by failing and replanning, never
\* by an exception that ends the process.
C15_NoFaultFromPlanContent ==
    PlanContentRaises => outcome # "fault"

(***************************************************************************)
(* Claims about the summarizer (checked under SpecSummarize).              *)
(***************************************************************************)
\* a System note that holds a summary of the session
IsSummaryNote(h) ==
    /\ h.role = "system"
    /\ Contains(<<"P","r","e","v","i","o","u","s"," ","s","e","s","s","i","o","n"," ","s","u","m","m","a","r","y",":"," ">>, h.content)

\* [first entry] + [one summary note] + [the last 3 entries] of h
IsSpliceOf(result, h) ==
    /\ Len(result) = 5
    /\ result[1] = h[1]
    /\ IsSummaryNote(result[2])
    /\ \A k \in 0..2 : result[5 - k] = h[Len(h) - k]

\* C16: when the summarization request succeeds, a history of more than 5
\* entries comes back as its first entry, one System summary note and its last
\* 3 entries, in that order; a history of 5 entries or fewer comes back as it
\* was.
C16_SpliceOnSuccess ==
    (s_pc = "return" /\ s_backend = "up") =>
        /\ s_result.raised = ""
        /\ IF Len(s_history) > 5 THEN IsSpliceOf(s_result.value, s_history)
           ELSE s_result.value = s_history

\* a history of 7 entries was summarized: entries 2 to 4 gave way to the note
C16_Witness ==
    /\ s_pc = "return"
    /\ s_backend = "up"
    /\ Len(s_history) = 7
    /\ s_history[4] # s_history[5]
    /\ s_result.raised = ""
    /\ Len(s_result.value) = 5
    /\ s_result.value[2] \notin { s_history[k] : k \in 1..7 }
    /\ s_result.value[3] = s_history[5]

\* C17: when the summarization request fails on a history of more than 5
\* entries, the call still returns, and what it returns is the same splice:
\* the first entry, one System note and the last 3 entries.
C17_FallbackSplices ==
    (s_pc = "return" /\ s_backend # "up" /\ Len(s_history) > 5) =>
        /\ s_result.raised = ""
        /\ IsSpliceOf(s_result.value, s_history)

(***************************************************************************)
(* Claims about the history of a session (checked under SpecLoop and Spec).*)
(***************************************************************************)
\* new is old with entries appended at the end (or old itself)
IsAppendOf(new, old) ==
    /\ Len(new) >= Len(old)
    /\ SubSeq(new, 1, Len(old)) = old

\* new is a compression of old: shorter, the first entry and the last 3 kept
IsCompressionOf(new, old) ==
    /\ Len(new) < Len(old)
    /\ IsSpliceOf(new, old)

\* what one step of the session may do to the history: append, compress, or
\* compress and then append (the planning phase, when the context is large)
HistoryStep(old, new) ==
    \/ IsAppendOf(new, old)
    \/ IsCompressionOf(new, old)
    \/ /\ Len(new) > 1
       /\ IsCompressionOf(SubSeq(new, 1, Len(new) - 1), old)

\* C18: the history changes only by appends at its end or by a compression
\* that replaces it with a shorter sequence keeping the first and the last 3
\* entries, and its first entry is always the user's request of this
\* invocation.
C18_AppendOrCompress ==
    /\ [](history[1] = Entry("user", user_prompt))
    /\ [][HistoryStep(history, history')]_vars

\* the history was compressed at the end of a pass and has grown again since
C18_Witness ==
    /\ Len(history) = 7
    /\ history[1] = Entry("user", user_prompt)
    /\ IsSummaryNote(history[2])
    /\ history[7].role = "system"
    /\ compression.trigger = "none"

\* the plan text of this pass does not parse, carries an error field, or has
\* no plan field that is a list
MalformedPlanText ==
    \/ json_loads(plan_json_str).raised # ""
    \/ "error" \in DOMAIN json_loads(plan_json_str).value.v
    \/ ~HasPlanList(json_loads(plan_json_str).value)

\* C19: validating a plan text that does not parse, carries an error field or
\* has a missing or non-list plan field appends exactly one System entry to
\* the history, executes no step, and hands the loop back to planning.
C19_MalformedPlanReplans ==
    [][(pc = "validate" /\ MalformedPlanText) =>
           /\ pc' = "plan"
           /\ outcome' = ""
           /\ executed' = <<>>
           /\ Len(history') = Len(history) + 1
           /\ SubSeq(history', 1, Len(history)) = history
           /\ history'[Len(history')].role = "system"]_vars

\* the answer to the completion question is COMPLETE
IsCompleteAnswer(answer) ==
    /\ answer.raised = ""
    /\ Upper(Strip(answer.value)) = <<"C","O","M","P","L","E","T","E">>

\* C20: the session is declared complete only when the plan source answered
\* COMPLETE to the completion question; a failed request and every other
\* answer (CONTINUE, INCOMPLETE, NOT COMPLETE) count as CONTINUE.
C20_CompleteOnlyOnCOMPLETE ==
    outcome = "complete" => IsCompleteAnswer(completion_answer)

(***************************************************************************)
(* Claims about the completion check, sudo, approval and iteration control *)
(* (checked under Spec and SpecLoop).                                      *)
(***************************************************************************)
\* C21: the completion question is put to the plan source only in a pass
\* that succeeded and whose most recent history entry is the result of an
\* executed step with exit code 0 (or of a `which` with exit code 1); after a
\* failed, rejected or malformed plan it is not asked.
C21_AskedOnlyAfterSuccess ==
    [][completion_answer' # NoAnswer =>
           /\ pc = "check"
           /\ execution_success
           /\ history[Len(history)].role = "system"
           /\ IsExecutionEntry(history[Len(history)])
           /\ Len(executed) > 0
           /\ \/ executed[Len(executed)].return_code = 0
              \/ /\ executed[Len(executed)].return_code = 1
                 /\ executed[Len(executed)].command = <<"w","h","i","c","h">>]_vars

\* the question was asked after a step that exited 0, and the answer was not
\* to stop
C21_Witness ==
    /\ completion_answer # NoAnswer
    /\ pc = "control"
    /\ Len(executed) > 0
    /\ executed[Len(executed)].return_code = 0

\* the step about to run is a sudo step
AtSudoStep ==
    /\ pc = "execute"
    /\ Get(plan[step_no], "command", JNull) = JStr(<<"s","u","d","o">>)

\* what a declined sudo step leaves behind
DeclineAbortsPlan ==
    /\ isatty
    /\ history' = Append(history, Entry("system",
           <<"C","a","n","c","e","l","l","e","d"," ","'","s","u","d","o"," ","a","p","t","-","g","e","t"," ","i","n","s","t","a","l","l","'","."," ","U","s","e","r"," ","d","e","c","l","i","n","e","d"," ","s","u","d","o",".">>))
    /\ plan' = <<>>
    /\ step_no' = 0
    /\ ~execution_success'
    /\ pc' = "plan"
    /\ outcome' = ""

SessionEnded == outcome \in {"complete", "quit", "max_iterations"}

\* C23: when a session has ended (task complete, user quit, or iteration
\* ceiling reached), its history has been written to the history file.
C23_HistorySavedAtExit ==
    SessionEnded => (history_file.written /\ history_file.content = history)

\* a plan that was rejected or skipped has none of its steps executed
RejectedOrSkippedRunsNothing ==
    plan_approval.answer \in {"no", "skip"} => executed = <<>>

C25_MissingExecutableIsExitOne ==
    \A k \in 1..Len(executed) :
        executed[k].missing =>
            /\ executed[k].return_code = 1
            /\ Contains(executed[k].command, executed[k].result)

(***************************************************************************)
(* Claims about iteration control (checked under SpecLoop).                *)
(***************************************************************************)
\* C26: once the counter has reached 5, iteration control resets the counter
\* (and any compression it performs is the automatic one), in a session
\* attached to a terminal as in one that is not.
C26_AutoCompressAtFive ==
    [][(pc = "control" /\ iteration >= 5 /\ outcome' = "") =>
           /\ iteration' = 0
           /\ compression'.trigger \in {"auto", "none"}]_vars

\* the pass before this planning pass went through iteration control, where a
\* session attached to a terminal is prompted from the third iteration on:
\* only a pass that succeeded gets there, a failed one goes straight back
ThroughIterationControl == pc = "plan" /\ iteration > 0 /\ execution_success

\* C27: in a session attached to a terminal, a planning pass that follows 3
\* or more iterations is preceded by the prompt of iteration control, whether
\* the pass before it failed or succeeded without completing the task.
C27_PromptAfterThree ==
    [][(pc = "plan" /\ pc' = "validate" /\ isatty /\ iteration >= 3) =>
           ThroughIterationControl]_vars


(***************************************************************************)
(* Claims about extraction (checked under SpecExtract).                    *)
(***************************************************************************)
\* the first of the positions S of a response, 0 if there is none
FirstOf(S) == IF S = {} THEN 0 ELSE SetMin(S)

TaggedJson(segs) == FirstOf({ k \in 1..Len(segs) : segs[k].wrapper \in {"json", "JSON"} })
Fenced(segs) == FirstOf({ k \in 1..Len(segs) : segs[k].wrapper # "bare" })
BraceGroup(segs) == FirstOf({ k \in 1..Len(segs) : segs[k].body[1] = "{" })

\* the text the stated priority selects from a response
ByPriority(segs) ==
    IF TaggedJson(segs) # 0 THEN segs[TaggedJson(segs)].body
    ELSE IF Fenced(segs) # 0 THEN segs[Fenced(segs)].body
    ELSE IF BraceGroup(segs) # 0 THEN segs[BraceGroup(segs)].body
    ELSE JsonDumps(ErrorPlan)

\* C28: the extracted text is the content of the first fenced block tagged
\* json if the response has one, else of the first fenced block, else the
\* first balanced top-level brace group outside string literals (nested
\* objects included), else the synthesized error object.
C28_ExtractionPriority ==
    x_pc = "return" => x_result.extracted = ByPriority(x_segments)

\* a plan was extracted from the response: the extracted object has a plan
IsExtractedPlan(text) == Contains(<<"\"","p","l","a","n","\"">>, text)

\* C29: in one planning pass the retry request is sent at most once and only
\* when no plan could be extracted from the response; a plan that was
\* extracted (also one with the argument "error") is the plan of the pass.
C29_RetryOnlyOnFailure ==
    x_pc = "return" =>
        /\ x_result.requests <= 1
        /\ x_result.requests = 1 => ~IsExtractedPlan(x_result.extracted)
        /\ IsExtractedPlan(x_result.extracted) =>
               x_result.plan_json_str = x_result.extracted

(***************************************************************************)
(* Claims about the planning prompt (checked under Spec).                  *)
(***************************************************************************)
\* the history the prompt of the pass was built from: the history of the pass
\* without the response appended after it
PromptHistory(after) == SubSeq(after, 1, Len(after) - 1)

IsSystemEntry(h) == h.role = "system"

\* "Error" or "failed" in the content, in any case
LooksFailedAnyCase(h) ==
    Contains(<<"e","r","r","o","r">>, Lower(h.content)) \/ Contains(<<"f","a","i","l","e","d">>, Lower(h.content))

\* the entries among the last 3 System entries that look like failures
FailuresOfLastSystemEntries(h) ==
    SelectSeq(LastN(SelectSeq(h, IsSystemEntry), 3), LooksFailedAnyCase)

\* C30: the prompt of a planning pass carries a non-empty failure-context
\* block exactly when one of the last 3 System entries of the history contains
\* "Error" or "failed" in any case, and the block lists those entries.
C30_FailureContextOfLastSystemEntries ==
    [][(pc = "plan" /\ pc' = "validate") =>
          /\ failure_context' # <<>> <=>
                 FailuresOfLastSystemEntries(PromptHistory(history')) # <<>>
          /\ failure_context' # <<>> =>
                 failure_context' = FailureHeader \o JsonDumpsIndented(
                     FailuresOfLastSystemEntries(PromptHistory(history')))]_vars


(***************************************************************************)
(* Claims about the executor (checked under SpecExecute).                  *)
(***************************************************************************)
\* the step was allowed and its process was started and has exited
ProcessExited ==
    /\ e_pc = "return"
    /\ validate_command_safety(e_command, e_args).is_safe
    /\ _run_command_subprocess(e_command, e_args, e_os).raised = ""

\* the joined command+args text holds one of the characters | > < &
HasShellCharacter(command, args) ==
    LET joined == Join(<<" ">>, <<command>> \o args) IN
    \E k \in 1..Len(joined) : joined[k] \in {"|", ">", "<", "&"}

\* C31: a step is spawned through the shell exactly when its joined
\* command+args text contains one of | > < & (a single & included), and is
\* spawned directly with the argument vector otherwise.
C31_ShellIffMetacharacter ==
    ProcessExited =>
        e_result.spawn = IF HasShellCharacter(e_command, e_args) THEN "shell" ELSE "direct"

\* the step of this run is allowed and the process started for it exits
ProcessWillExit ==
    /\ e_pc = "call"
    /\ validate_command_safety(e_command, e_args).is_safe
    /\ _run_command_subprocess(e_command, e_args, e_os).raised = ""

\* the lines the step added at the end of the audit log, which it left
\* otherwise as it was
AppendedLines(before, after) ==
    IF Len(after) >= Len(before) /\ SubSeq(after, 1, Len(before)) = before
    THEN SubSeq(after, Len(before) + 1, Len(after))
    ELSE <<LogLine("LOST", <<>>)>>

\* an audit line of the step: its command text and its exit code
IsAuditLine(line, command, args, return_code) ==
    /\ line.levelname = "INFO"
    /\ Contains(CommandLine(command, args), line.message)
    /\ Contains(<<"E","X","I","T","_","C","O","D","E",":"," ">> \o IntStr(return_code), line.message)

\* C32: a step whose process ran appends one audit line with the command text
\* and the exit code, followed by one warning line exactly when the exit code
\* is not zero; when the log cannot be written the step is not aborted, and in
\* both cases the executor returns the exit code and the formatted output of
\* the process.
C32_AuditLinePerExecution ==
    [][ProcessWillExit =>
           LET run == _run_command_subprocess(e_command, e_args, e_os)
               added == AppendedLines(e_log, e_log')
           IN  /\ e_pc' = "return"
               /\ e_result'.return_code = run.returncode
               /\ e_result'.result = _format_command_output(run)
               /\ e_writable =>
                      /\ Len(added) = IF run.returncode = 0 THEN 1 ELSE 2
                      /\ IsAuditLine(added[1], e_command, e_args, run.returncode)
                      /\ Len(added) = 2 => added[2].levelname = "WARNING"
               /\ ~e_writable => added = <<>>]_vars

C32_Witness ==
    /\ ProcessExited
    /\ e_writable
    /\ e_result.return_code = 2
    /\ Len(e_log) = 3
    /\ e_log[3].levelname = "WARNING"

\* the step of this run is rejected by the classifier, or the spawn of its
\* process raises
NoProcessWillRun ==
    /\ e_pc = "call"
    /\ \/ ~validate_command_safety(e_command, e_args).is_safe
       \/ _run_command_subprocess(e_command, e_args, e_os).raised # ""

\* C33: a step that the classifier rejects, or whose spawn fails, leaves the
\* audit log as it was, and its History entry carries the command text and
\* exit code 1.
C33_NoAuditLineWithoutProcess ==
    [][NoProcessWillRun =>
           /\ e_log' = e_log
           /\ e_result'.spawn = "none"
           /\ e_result'.return_code = 1
           /\ e_entry'.role = "system"
           /\ Contains(<<"E","x","e","c","u","t","e","d"," ","'">> \o CommandLine(e_command, e_args)
                           \o <<"'","."," ","E","x","i","t"," ","c","o","d","e",":"," ","1","."," ">>, e_entry'.content)]_vars

C33_Witness ==
    /\ e_pc = "return"
    /\ e_writable
    /\ validate_command_safety(e_command, e_args).is_safe
    /\ e_os.raised = "FileNotFoundError"
    /\ e_result.return_code = 1
    /\ e_log \in PriorLogs
    /\ Contains(<<"E","x","i","t"," ","c","o","d","e",":"," ","1","."," ","R","e","s","u","l","t",":","\n","E","r","r","o","r",":"," ","C","o","m","m","a","n","d"," ","n","o","t"," ","f","o","u","n","d",":"," ">>, e_entry.content)

\* C34: in a session without a terminal the counter is at most 4 whenever the
\* ceiling test is evaluated (iteration control has just reset a counter of 5
\* or more, and a failed pass does not get to the test), so the session never
\* ends with the max-iterations outcome: it ends only by the task being judged
\* complete.
C34_NoTerminalEndsOnlyComplete ==
    /\ [](~isatty => outcome \in {"", "complete"})
    /\ [][(~isatty /\ pc = "control" /\ outcome' # "fault") => iteration' <= 4]_vars

====
